---- MODULE Spec2Model ----
(***************************************************************************)
(* MacGal: the instance catalogue kept by AppContent (App.tsx), its        *)
(* write-through persistence, the game-finished listener, handleLaunch and *)
(* the InstancesPage handlers that replace the catalogue.                  *)
(*                                                                         *)
(* A JavaScript object is a function from the keys it has to their values. *)
(* A key that holds the value undefined maps to Undefined.                 *)
(***************************************************************************)
EXTENDS Integers, Sequences, FiniteSets, TLC

\* ---------------------------------------------------------------- bounds
MaxIds == 2          \* ids crypto.randomUUID() can return: 1..MaxIds
MaxNow == 2          \* the clock reads 1..MaxNow
TicksPerDay == 4     \* clock values per calendar day
MaxPlay == 1         \* an event is delivered while |totalPlayTime + d| <= MaxPlay
MaxSaves == 1        \* Spec, SpecDelete, SpecEvents: save_instances requests outstanding
MaxLaunches == 1     \* launch_game requests outstanding
MaxLoads == 1        \* load_instances requests outstanding
MaxPersistSaves == 2 \* SpecBurst, SpecPersist: save_instances requests outstanding
MaxDuration == 2     \* SpecEvents: an event reports 0..MaxDuration seconds
MaxEventPlay == 3    \* SpecEvents: an event is delivered while |totalPlayTime + d| <= MaxEventPlay
MaxBatchIds == 5     \* SpecBatch: ids crypto.randomUUID() can return: 1..MaxBatchIds
MaxScans == 1        \* SpecBatch: calls of handleBatchImportClick outstanding
MaxBatchCatalogue == 1  \* SpecBatch: a scan is begun while the catalogue holds no more instances
MaxRequests == 4     \* SpecSearch: requests of a search: two keywords, two sources
MaxResults == 4      \* SpecSearch: results a search can list
MaxSignedPlay == 2   \* SpecSigned: an event is delivered while the total and the day's seconds stay within -MaxSignedPlay..MaxSignedPlay
MaxListed == 0       \* SpecSearch: a search is begun while no more results are listed
MaxDirs == 2         \* SpecBatch: game directories a scan finds, and results of a search
MaxStaleRuns == 1       \* loops of unmounted pages that run at one time

IdSet == 1..MaxIds
BatchIdSet == 1..MaxBatchIds
Times == 1..MaxNow                  \* what Date.now() can read
EventTimes == {TicksPerDay, 2 * TicksPerDay}   \* SpecEvents: a reading on each of two days
SpecDurations == {1}                \* the seconds an event reports
SignedDurations == {-1, 0, 1}       \* SpecSigned: the seconds an event reports
Durations == 0..MaxDuration         \* SpecEvents: the seconds an event reports
Names == {"b"}                      \* what the user types as a name
ExecPaths == {"x.exe"}              \* what the user picks as executable
DefaultBottle == "Default"
Undefined == "undefined"            \* the JavaScript value undefined, in a string field

\* ------------------------------------------------------- JavaScript objects
Has(obj, k) == k \in DOMAIN obj

\* { ...obj, [k]: v }
Assign(obj, k, v) == [f \in (DOMAIN obj) \cup {k} |-> IF f = k THEN v ELSE obj[f]]

\* { ...a, ...b }
Spread(a, b) == [f \in (DOMAIN a) \cup (DOMAIN b) |-> IF f \in DOMAIN b THEN b[f] ELSE a[f]]

\* obj[k] || dflt, for a numeric key (undefined and 0 are falsy)
NumOr(obj, k, dflt) == IF Has(obj, k) /\ obj[k] # 0 THEN obj[k] ELSE dflt

\* !obj[k], for a string key
FalsyStr(obj, k) == ~Has(obj, k) \/ obj[k] = Undefined \/ obj[k] = ""

StringKeys == {"name", "info", "bottleName", "executablePath", "backgroundImage"}

\* new Date().toLocaleDateString("en-CA"): the calendar day of the clock value t
Days == <<"2024-01-01", "2024-01-02", "2024-01-03">>
TodayKey(t) == Days[(t \div TicksPerDay) + 1]

\* ------------------------------------------------------------ sortInstances
Sign(n) == IF n < 0 THEN -1 ELSE IF n > 0 THEN 1 ELSE 0

\* a.localeCompare(b) on ids; ids are digit strings of equal length or
\* lower-case UUIDs, which collate as the numbers that stand for them here.
LocaleCompare(a, b) == Sign(a - b)

\* the comparator of sortInstances
CompareInstances(a, b) ==
    LET timeA == NumOr(a, "lastPlayed", 0)
        timeB == NumOr(b, "lastPlayed", 0)
    IN  IF timeA # timeB THEN timeB - timeA
        ELSE LocaleCompare(b.id, a.id)

\* the comparator handleLaunch sorts with before it calls handleUpdateInstances
CompareLastPlayed(a, b) == NumOr(b, "lastPlayed", 0) - NumOr(a, "lastPlayed", 0)

\* the comparator a call of Array.prototype.sort is given
Compare(cmp, a, b) ==
    IF cmp = "sortInstances" THEN CompareInstances(a, b) ELSE CompareLastPlayed(a, b)

\* Array.prototype.sort: a stable sort of list by the comparator cmp
ArraySort(list, cmp) ==
    LET Ins(sorted, x) ==
            LET k == Cardinality({j \in 1..Len(sorted) : Compare(cmp, sorted[j], x) <= 0})
            IN  SubSeq(sorted, 1, k) \o <<x>> \o SubSeq(sorted, k + 1, Len(sorted))
        S[n \in 0..Len(list)] == IF n = 0 THEN <<>> ELSE Ins(S[n - 1], list[n])
    IN  S[Len(list)]

\* fault: the catalogue ordered by lastPlayed alone, as handleLaunch orders it
sortByLastPlayed(list) == ArraySort(list, "lastPlayed")

\* fault: a sort by lastPlayed that is not stable: instances with the same
\* lastPlayed come out in the reverse of the order they went in
sortReversingTies(list) ==
    ArraySort([i \in 1..Len(list) |-> list[Len(list) + 1 - i]], "lastPlayed")

sortInstances(list) == ArraySort(list, "sortInstances")

\* ------------------------------------------------------------ list helpers
Ids(list) == {list[i].id : i \in 1..Len(list)}

\* list.filter(i => i.id !== id)
WithoutId(list, id) ==
    LET S[n \in 0..Len(list)] ==
            IF n = 0 THEN <<>>
            ELSE IF list[n].id # id THEN Append(S[n - 1], list[n]) ELSE S[n - 1]
    IN  S[Len(list)]

\* list.find(i => i.id === id), for an id the list holds
Find(list, id) ==
    list[CHOOSE i \in 1..Len(list) :
            list[i].id = id /\ \A j \in 1..(i - 1) : list[j].id # id]

\* ------------------------------------------------------------------- JSON
\* JSON.stringify drops the keys whose value is undefined.
StripUndefined(obj) ==
    [f \in {k \in DOMAIN obj : ~(k \in StringKeys /\ obj[k] = Undefined)} |-> obj[f]]

JSONStringify(list) ==
    [kind |-> "array", items |-> [i \in 1..Len(list) |-> StripUndefined(list[i])]]

\* JSON.parse of a payload, and the Array.isArray test made on its value
JSONParse(payload) == payload.items
IsArray(payload) == payload.kind = "array"

\* ------------------------------------------------------------------ state
VARIABLES
    instances,      \* AppContent: the instances state, the in-memory catalogue
    persisted,      \* the backend's file: the payload of the last save that succeeded
    saves,          \* save_instances requests in flight, in the order issued
    launches,       \* launch_game requests in flight, with what handleLaunch closed over
    loads,          \* load_instances requests in flight
    activeTab,      \* AppContent: the tab shown
    formData,       \* InstancesPage: the form's object
    selectedId,     \* InstancesPage: the id being edited, or Null
    importState,    \* InstancesPage: the single-import dialog
    deleteModal,    \* InstancesPage: the delete dialog
    isBatchModalOpen,     \* InstancesPage: the batch-import dialog shows
    batchItems,           \* InstancesPage: the BatchItems of the dialog
    isBatchMatching,      \* InstancesPage: a matching run is under way
    editingBatchItemId,   \* InstancesPage: the id of the BatchItem being edited, or Null
    matchQueue,     \* the ids of itemsToMatch the loop of handleStartBatchMatching has yet to settle
    scans,          \* calls of handleBatchImportClick that have not settled
    staleRuns,      \* for each loop of handleStartBatchMatching of an unmounted page, the turns it has yet to end
    searchModal,    \* Layout and SearchModal: isSearchOpen, the state of the modal and its searches in flight
    discovery,      \* DiscoveryPage: its state, its refs and the fetches in flight
    searchExecPath, \* InstancesPage: the executable picked for the search
    isSearching,    \* InstancesPage: a call of handleSearchGame is under way
    searchResults,  \* InstancesPage: the results the search dialog lists
    search,         \* the call of handleSearchGame that has not settled: its awaits
    toast,          \* ToastProvider: the last toast shown
    usedIds,        \* the ids crypto.randomUUID() has returned
    deletedIds      \* history: the ids handleDelete has removed (SpecDelete)

vars == <<instances, persisted, saves, launches, loads, activeTab, formData,
          selectedId, importState, deleteModal, isBatchModalOpen, batchItems,
          isBatchMatching, editingBatchItemId, matchQueue, scans, staleRuns,
          searchModal, discovery, searchExecPath, isSearching, searchResults, search, toast, usedIds,
          deletedIds>>

\* the batch import of InstancesPage
batch == <<isBatchModalOpen, batchItems, isBatchMatching, editingBatchItemId, matchQueue,
           scans>>

\* the search of the single import of InstancesPage
searching == <<searchExecPath, isSearching, searchResults, search>>

page == <<formData, selectedId, importState, deleteModal, batch, searching>>

Null == 0                       \* selectedId: null
EmptyObj == <<>>                \* {} ; also stands for null where an object is expected
INITIAL_INSTANCES == <<>>

ClosedModal == [isOpen |-> FALSE, instance |-> EmptyObj]

\* showToast(message, type); a message is named by the call that shows it
Toast(message, type) == [message |-> message, type |-> type]
NoToast == Toast("", "none")

\* formData while the form is closed. The handlers that close the form leave
\* formData as it is; it is read only while the form shows, and every handler
\* that opens the form sets it first, so the value kept meanwhile is dropped here.
ClosedForm == EmptyObj

\* no call of handleSearchGame is under way
NoCall == [phase |-> "none"]

\* the search as InstancesPage mounts with it
NoSearch ==
    /\ searchExecPath = ""
    /\ isSearching = FALSE
    /\ searchResults = <<>>
    /\ search = NoCall

\* the search modal of Layout as the application starts
ClosedSearchModal ==
    [isOpen |-> FALSE, searchQuery |-> "", results |-> <<>>, loadingSource |-> "null",
     hasSearched |-> FALSE, calls |-> <<>>, started |-> 0, latest |-> 0, due |-> <<>>]

\* DiscoveryPage before it is mounted, and its state as it mounts
NoDiscovery ==
    [mounted |-> FALSE, articles |-> <<>>, hasMore |-> TRUE, error |-> "null", pageRef |-> 1,
     loadingRef |-> FALSE, loadingState |-> FALSE, calls |-> <<>>]

\* the batch import as InstancesPage mounts with it
NoBatch ==
    /\ isBatchModalOpen = FALSE
    /\ batchItems = <<>>
    /\ isBatchMatching = FALSE
    /\ editingBatchItemId = Null
    /\ matchQueue = <<>>
    /\ scans = 0
    /\ staleRuns = <<>>

\* an instance as a manual import of an earlier run left it on disk
StoredInstance(id) ==
    [f \in {"id", "bottleName", "name", "executablePath"} |->
        CASE f = "id" -> id
          [] f = "bottleName" -> DefaultBottle
          [] f = "name" -> "a"
          [] f = "executablePath" -> "x.exe"]

\* what the file holds when the process starts
InitialCatalogues == {<<StoredInstance(1)>>}

Init ==
    /\ instances = <<>>
    /\ \E cat \in InitialCatalogues :
          /\ persisted = JSONStringify(cat)
          /\ usedIds = Ids(cat)
    /\ saves = <<>>
    /\ launches = <<>>
    /\ loads = <<[isManual |-> FALSE, read |-> FALSE, data |-> JSONStringify(<<>>)]>>
    /\ activeTab = "home"
    /\ formData = EmptyObj
    /\ selectedId = Null
    /\ importState = "none"
    /\ deleteModal = ClosedModal
    /\ NoBatch
    /\ NoSearch
    /\ searchModal = ClosedSearchModal
    /\ discovery = NoDiscovery
    /\ toast = NoToast
    /\ deletedIds = {}

RemoveAt(seq, k) == SubSeq(seq, 1, k - 1) \o SubSeq(seq, k + 1, Len(seq))

\* a dialog that covers the page is open
DialogOpen ==
    \/ deleteModal.isOpen
    \/ importState \in {"choice", "search_params", "search_results"}
    \/ isBatchModalOpen

\* InstancesPage: isEditing
IsEditing == selectedId # Null \/ importState = "manual_form"

\* ------------------------------------------------------- loadInstancesData
\* the mount effect has issued the first load (Init); the refresh button issues more
RequestLoad ==
    /\ ~DialogOpen
    /\ loads' = Append(loads, [isManual |-> TRUE, read |-> FALSE, data |-> JSONStringify(<<>>)])
    /\ UNCHANGED <<instances, persisted, saves, launches, activeTab, staleRuns, searchModal, discovery, page, toast,
                   usedIds, deletedIds>>

\* the backend reads the file for a load request
LoadRead(k) ==
    /\ k \in 1..Len(loads)
    /\ ~loads[k].read
    /\ loads' = [loads EXCEPT ![k].read = TRUE, ![k].data = persisted]
    /\ UNCHANGED <<instances, persisted, saves, launches, activeTab, staleRuns, searchModal, discovery, page, toast,
                   usedIds, deletedIds>>

\* the request resolves: the rest of the try block
LoadDone(k) ==
    /\ k \in 1..Len(loads)
    /\ loads[k].read
    /\ IF IsArray(loads[k].data)
       THEN /\ instances' = sortInstances(JSONParse(loads[k].data))
            /\ toast' = IF loads[k].isManual THEN Toast("refreshed", "success") ELSE toast
       ELSE /\ instances' = INITIAL_INSTANCES
            /\ toast' = toast
    /\ loads' = RemoveAt(loads, k)
    /\ UNCHANGED <<persisted, saves, launches, activeTab, staleRuns, searchModal, discovery, page, usedIds, deletedIds>>

\* the request rejects, or JSON.parse throws: the catch block
LoadFail(k) ==
    /\ k \in 1..Len(loads)
    /\ toast' = Toast("load failed", "error")
    /\ loads' = RemoveAt(loads, k)
    /\ UNCHANGED <<instances, persisted, saves, launches, activeTab, staleRuns, searchModal, discovery, page, usedIds,
                   deletedIds>>

\* ---------------------------------------------------- handleUpdateInstances
\* sort, set the state, issue the save; the await is SaveDone or SaveFail
handleUpdateInstances(newInstances) ==
    LET sorted == sortInstances(newInstances)
    IN  /\ instances' = sorted
        /\ saves' = Append(saves, [data |-> JSONStringify(sorted), src |-> "replace",
                                   matched |-> TRUE])

\* a save_instances request succeeds: the backend writes the file
SaveDone(k) ==
    /\ k \in 1..Len(saves)
    /\ persisted' = saves[k].data
    /\ saves' = RemoveAt(saves, k)
    /\ UNCHANGED <<instances, launches, loads, activeTab, staleRuns, searchModal, discovery, page, toast, usedIds,
                   deletedIds>>

\* fault: the catch block puts the catalogue the file holds back in memory
SaveFailRollsBack(k) ==
    /\ k \in 1..Len(saves)
    /\ saves' = RemoveAt(saves, k)
    /\ instances' = sortInstances(JSONParse(persisted))
    /\ UNCHANGED <<persisted, launches, loads, activeTab, staleRuns, searchModal, discovery, page, toast, usedIds,
                   deletedIds>>

\* a save_instances request fails: console.error, or an unhandled rejection
SaveFail(k) ==
    /\ k \in 1..Len(saves)
    /\ saves' = RemoveAt(saves, k)
    /\ UNCHANGED <<instances, persisted, launches, loads, activeTab, staleRuns, searchModal, discovery, page, toast,
                   usedIds, deletedIds>>

\* ------------------------------------------------- the game-finished listener
\* fault: the day's entry is written without the seconds of the session
ApplyPlaySessionTotalOnly(inst, duration_sec, todayKey) ==
    LET currentHistory == IF Has(inst, "playHistory") THEN inst.playHistory ELSE EmptyObj
        todayTime == NumOr(currentHistory, todayKey, 0)
    IN  Assign(Assign(inst, "totalPlayTime", NumOr(inst, "totalPlayTime", 0) + duration_sec),
               "playHistory", Assign(currentHistory, todayKey, todayTime))

\* fault: playHistory is rebuilt from the day's entry, without the spread of currentHistory
ApplyPlaySessionTodayOnly(inst, duration_sec, todayKey) ==
    LET currentHistory == IF Has(inst, "playHistory") THEN inst.playHistory ELSE EmptyObj
        todayTime == NumOr(currentHistory, todayKey, 0) + duration_sec
    IN  Assign(Assign(inst, "totalPlayTime", NumOr(inst, "totalPlayTime", 0) + duration_sec),
               "playHistory", Assign(EmptyObj, todayKey, todayTime))

\* the object the updater returns for the instance the event names
ApplyPlaySession(inst, duration_sec, todayKey) ==
    LET currentHistory == IF Has(inst, "playHistory") THEN inst.playHistory ELSE EmptyObj
        todayTime == NumOr(currentHistory, todayKey, 0) + duration_sec
    IN  Assign(Assign(inst, "totalPlayTime", NumOr(inst, "totalPlayTime", 0) + duration_sec),
               "playHistory", Assign(currentHistory, todayKey, todayTime))

\* fault: the listener reads the instances its effect closed over when it
\* registered, the initial value of the state
RegisteredInstances == INITIAL_INSTANCES

\* prevInstances: the list React hands the updater given to setInstances
PrevInstances == instances

\* prevInstances.map(...)
PlaySessionUpdate(prevInstances, instance_id, duration_sec, todayKey) ==
    [i \in 1..Len(prevInstances) |->
        IF prevInstances[i].id = instance_id
        THEN ApplyPlaySession(prevInstances[i], duration_sec, todayKey)
        ELSE prevInstances[i]]

\* t: what new Date() reads
GameFinished(instance_id, duration_sec, t) ==
    /\ LET newInstances == PlaySessionUpdate(PrevInstances, instance_id, duration_sec,
                                             TodayKey(t))
       IN  /\ saves' = Append(saves, [data |-> JSONStringify(newInstances),
                                      src |-> "listener",
                                      matched |-> instance_id \in Ids(PrevInstances)])
           /\ instances' = newInstances
    /\ UNCHANGED <<persisted, launches, loads, activeTab, staleRuns, searchModal, discovery, page, toast, usedIds,
                   deletedIds>>

\* ----------------------------------------------------------- handleLaunch
\* the click: handleLaunch runs up to its await
ClickLaunch(i) ==
    /\ i \in 1..Len(instances)
    /\ \/ activeTab = "home"
       \/ activeTab = "instances" /\ ~IsEditing /\ ~DialogOpen
    /\ launches' = Append(launches, [instance |-> instances[i], instances |-> instances])
    /\ UNCHANGED <<instances, persisted, saves, loads, activeTab, staleRuns, searchModal, discovery, page, toast,
                   usedIds, deletedIds>>

\* instances.map(i => i.id === instance.id ? { ...i, lastPlayed: Date.now() } : i),
\* then the sort by lastPlayed
LaunchWriteBack(list, id, t) ==
    ArraySort([i \in 1..Len(list) |->
                  IF list[i].id = id THEN Assign(list[i], "lastPlayed", t) ELSE list[i]],
              "lastPlayed")

\* launch_game resolves: the rest of the try block; t: what Date.now() reads
LaunchSuccess(k, t) ==
    /\ k \in 1..Len(launches)
    /\ toast' = Toast("launched", "success")
    /\ handleUpdateInstances(LaunchWriteBack(launches[k].instances,
                                             launches[k].instance.id, t))
    /\ launches' = RemoveAt(launches, k)
    /\ UNCHANGED <<persisted, loads, activeTab, staleRuns, searchModal, discovery, page, usedIds, deletedIds>>

\* fault: the catch block writes lastPlayed back as the try block does
LaunchFailWritesBack(k) ==
    /\ k \in 1..Len(launches)
    /\ toast' = Toast("launch failed", "error")
    /\ \E t \in Times :
          handleUpdateInstances(LaunchWriteBack(launches[k].instances,
                                                launches[k].instance.id, t))
    /\ launches' = RemoveAt(launches, k)
    /\ UNCHANGED <<persisted, loads, activeTab, staleRuns, searchModal, discovery, page, usedIds, deletedIds>>

\* launch_game rejects: the catch block
LaunchFail(k) ==
    /\ k \in 1..Len(launches)
    /\ toast' = Toast("launch failed", "error")
    /\ launches' = RemoveAt(launches, k)
    /\ UNCHANGED <<instances, persisted, saves, loads, activeTab, staleRuns, searchModal, discovery, page, usedIds,
                   deletedIds>>

\* ------------------------------------------------- Layout: the search modal
\* SearchModal is rendered by Layout on every tab, so its state outlives the
\* pages. The fields calls, started, latest and due are not state of the
\* component: calls are the invocations of search_game that have not settled,
\* started counts the searches begun, latest is the number of the search that
\* began last since the modal was last reset (0: none) and due is what that
\* search has delivered so far.
MaxModalSearches == 2

ModalSources == {"touchgal", "kungal"}
ModalQueries == {"", " ", "a", "b"}

\* searchQuery.trim(), on the queries typed here
QueryTrim(q) == IF q = " " THEN "" ELSE q

\* what search_game may answer for a keyword on a source
SearchGameData(keyword, source) == {<<>>, <<[title |-> keyword, source |-> source]>>}

ModalUnchanged ==
    UNCHANGED <<instances, persisted, saves, launches, loads, activeTab, staleRuns, discovery,
                page, toast, usedIds, deletedIds>>

\* Cmd/Ctrl+S or the search box of the top bar
OpenSearch ==
    /\ ~searchModal.isOpen
    /\ searchModal' = [searchModal EXCEPT !.isOpen = TRUE]
    /\ ModalUnchanged

\* onClose (Escape, the backdrop, the X) and the effect on isOpen that resets
\* the query, the results and hasSearched; loadingSource is left as it is
CloseSearch ==
    /\ searchModal.isOpen
    /\ searchModal' = [searchModal EXCEPT !.isOpen = FALSE, !.searchQuery = "",
                                          !.results = <<>>, !.hasSearched = FALSE,
                                          !.latest = 0, !.due = <<>>]
    /\ ModalUnchanged

\* typing in the input of the modal
SetSearchQuery(q) ==
    /\ searchModal.isOpen
    /\ q # searchModal.searchQuery
    /\ searchModal' = [searchModal EXCEPT !.searchQuery = q]
    /\ ModalUnchanged

\* handleSearch(source), up to the await: Enter in the input searches TouchGal
\* whatever is loading, and the button of a source is disabled only while
\* that very source is loading
handleSearch(source, byButton) ==
    /\ searchModal.isOpen
    /\ byButton => searchModal.loadingSource # source
    /\ ~byButton => source = "touchgal"
    /\ IF QueryTrim(searchModal.searchQuery) = ""
       THEN UNCHANGED searchModal
       ELSE searchModal' =
                [searchModal EXCEPT
                    !.loadingSource = source,
                    !.results = <<>>,
                    !.hasSearched = TRUE,
                    !.started = @ + 1,
                    !.latest = searchModal.started + 1,
                    !.due = <<>>,
                    !.calls = Append(@, [keyword |-> searchModal.searchQuery,
                                         source |-> source,
                                         n |-> searchModal.started + 1])]
    /\ ModalUnchanged

\* search_game answers: setResults(data), then setLoadingSource(null)
SearchGameResolve(k, data) ==
    /\ k \in 1..Len(searchModal.calls)
    /\ data \in SearchGameData(searchModal.calls[k].keyword, searchModal.calls[k].source)
    /\ searchModal' =
           [searchModal EXCEPT
               !.results = data,
               !.loadingSource = "null",
               !.due = IF searchModal.calls[k].n = searchModal.latest THEN data ELSE @,
               !.calls = RemoveAt(@, k)]
    /\ ModalUnchanged

\* search_game fails: the error is logged, then setLoadingSource(null)
SearchGameReject(k) ==
    /\ k \in 1..Len(searchModal.calls)
    /\ searchModal' = [searchModal EXCEPT !.loadingSource = "null", !.calls = RemoveAt(@, k)]
    /\ ModalUnchanged

\* ------------------------------------------------------------ DiscoveryPage
\* DiscoveryPage is mounted only on its tab. An article is named by its
\* topicId. calls are the invocations of fetch_ymgal_news that have not
\* settled: live is TRUE for a call of the page that is mounted now, FALSE for
\* a call of a page that has been unmounted since, whose refs and setters are
\* those of a component that is gone.
PageSize == 10
MaxFeedPage == 3
MaxStaleFetches == 1

\* what fetch_ymgal_news may answer for a page: the page in full, the page in
\* full after the feed has moved on by one article, a last page of one
\* article, no article, and a refusal
FeedResponses(pageNum) ==
    {[success |-> TRUE, data |-> [i \in 1..PageSize |-> (pageNum - 1) * PageSize + i]],
     [success |-> TRUE, data |-> [i \in 1..PageSize |-> (pageNum - 1) * PageSize + i - 1]],
     [success |-> TRUE, data |-> <<(pageNum - 1) * PageSize + 1>>],
     [success |-> TRUE, data |-> <<>>],
     [success |-> FALSE, data |-> <<>>]}

\* fetchArticles(pageNum), up to the await
fetchArticles(d, pageNum) ==
    IF d.loadingRef
    THEN d
    ELSE [d EXCEPT !.loadingRef = TRUE, !.loadingState = TRUE, !.error = "null",
                   !.calls = Append(@, [page |-> pageNum, live |-> TRUE])]

\* the calls in flight as the page is unmounted
Orphaned(calls) == [k \in 1..Len(calls) |-> [calls[k] EXCEPT !.live = FALSE]]

\* App renders DiscoveryPage on its tab only: entering the tab mounts a new
\* page, whose effect fetches page 1; leaving it drops the state of the page
DiscoveryOnTab(tab) ==
    IF tab = "discovery"
    THEN fetchArticles([NoDiscovery EXCEPT !.mounted = TRUE, !.calls = Orphaned(discovery.calls)], 1)
    ELSE [NoDiscovery EXCEPT !.calls = Orphaned(discovery.calls)]

FeedUnchanged ==
    UNCHANGED <<instances, persisted, saves, launches, loads, activeTab, staleRuns, searchModal,
                page, toast, usedIds, deletedIds>>

\* the IntersectionObserver sees the foot of the list
ObserverIntersects ==
    /\ discovery.mounted
    /\ discovery.hasMore
    /\ ~discovery.loadingRef
    /\ discovery' = fetchArticles(discovery, discovery.pageRef + 1)
    /\ FeedUnchanged

\* the retry link of the error banner
RetryFetch ==
    /\ discovery.mounted
    /\ discovery.error # "null"
    /\ discovery' = fetchArticles(discovery, discovery.pageRef)
    /\ FeedUnchanged

\* setArticles(prev => ...)
MergeArticles(prev, pageNum, data) ==
    IF pageNum = 1
    THEN data
    ELSE LET existingIds == {prev[i] : i \in 1..Len(prev)}
         IN  prev \o SelectSeq(data, LAMBDA a : a \notin existingIds)

\* fetch_ymgal_news answers
FetchNewsResolve(k, resp) ==
    /\ k \in 1..Len(discovery.calls)
    /\ resp \in FeedResponses(discovery.calls[k].page)
    /\ LET call == discovery.calls[k]
           rest == RemoveAt(discovery.calls, k)
       IN  discovery' =
               IF ~call.live
               THEN [discovery EXCEPT !.calls = rest]
               ELSE IF resp.success /\ Len(resp.data) > 0
               THEN [discovery EXCEPT
                        !.articles = MergeArticles(@, call.page, resp.data),
                        !.pageRef = call.page,
                        !.hasMore = IF Len(resp.data) < PageSize THEN FALSE ELSE @,
                        !.loadingRef = FALSE,
                        !.loadingState = FALSE,
                        !.calls = rest]
               ELSE [discovery EXCEPT !.hasMore = FALSE, !.loadingRef = FALSE,
                                      !.loadingState = FALSE, !.calls = rest]
    /\ FeedUnchanged

\* fetch_ymgal_news fails
FetchNewsReject(k) ==
    /\ k \in 1..Len(discovery.calls)
    /\ discovery' =
           IF ~discovery.calls[k].live
           THEN [discovery EXCEPT !.calls = RemoveAt(@, k)]
           ELSE [discovery EXCEPT !.error = "error", !.loadingRef = FALSE,
                                  !.loadingState = FALSE, !.calls = RemoveAt(@, k)]
    /\ FeedUnchanged

\* --------------------------------------------------------------- the tabs
\* InstancesPage is mounted only on its tab: leaving the tab drops its state,
\* and what its requests in flight set afterwards sets nothing
SetActiveTab(tab) ==
    /\ ~DialogOpen
    /\ tab # activeTab
    /\ activeTab' = tab
    /\ formData' = EmptyObj
    /\ selectedId' = Null
    /\ importState' = "none"
    /\ deleteModal' = ClosedModal
    /\ isBatchModalOpen' = FALSE
    /\ batchItems' = <<>>
    /\ isBatchMatching' = FALSE
    /\ editingBatchItemId' = Null
    /\ matchQueue' = <<>>
    /\ scans' = 0
    /\ staleRuns' = IF matchQueue = <<>> THEN staleRuns ELSE Append(staleRuns, Len(matchQueue))
    /\ discovery' = DiscoveryOnTab(tab)
    /\ searchExecPath' = ""
    /\ isSearching' = FALSE
    /\ searchResults' = <<>>
    /\ search' = NoCall
    /\ UNCHANGED <<instances, persisted, saves, launches, loads, searchModal, toast, usedIds,
                   deletedIds>>

\* ------------------------------------------------------------ InstancesPage
OnPage == activeTab = "instances"

\* import menu, single import: the dialog opens on the choice
OpenImportChoice ==
    /\ OnPage /\ ~IsEditing /\ ~DialogOpen
    /\ importState' = "choice"
    /\ UNCHANGED <<searching, batch, instances, persisted, saves, launches, loads, activeTab, staleRuns, searchModal, discovery, formData,
                   selectedId, deleteModal, toast, usedIds, deletedIds>>

\* the dialog's close button
CloseImportDialog ==
    /\ OnPage /\ importState \in {"choice", "search_params", "search_results"}
    /\ importState' = "none"
    /\ UNCHANGED <<searching, batch, instances, persisted, saves, launches, loads, activeTab, staleRuns, searchModal, discovery, formData,
                   selectedId, deleteModal, toast, usedIds, deletedIds>>

\* manual import: a form for a new instance, with a fresh id
ChooseManualImport(id) ==
    /\ OnPage /\ importState = "choice"
    /\ id \in IdSet \ usedIds
    /\ usedIds' = usedIds \cup {id}
    /\ formData' = [f \in {"id", "bottleName"} |-> IF f = "id" THEN id ELSE DefaultBottle]
    /\ importState' = "manual_form"
    /\ UNCHANGED <<searching, batch, instances, persisted, saves, launches, loads, activeTab, staleRuns, searchModal, discovery, selectedId,
                   deleteModal, toast, deletedIds>>

\* the settings button of a card: the form opens on that instance
OpenEdit(i) ==
    /\ OnPage /\ ~IsEditing /\ ~DialogOpen
    /\ i \in 1..Len(instances)
    /\ formData' = instances[i]
    /\ selectedId' = instances[i].id
    /\ UNCHANGED <<searching, batch, instances, persisted, saves, launches, loads, activeTab, staleRuns, searchModal, discovery, importState,
                   deleteModal, toast, usedIds, deletedIds>>

\* typing in a field of the form: setFormData({ ...formData, [key]: value })
SetField(key, value) ==
    /\ OnPage /\ IsEditing /\ ~DialogOpen
    /\ formData' = Assign(formData, key, value)
    /\ formData' # formData
    /\ UNCHANGED <<searching, batch, instances, persisted, saves, launches, loads, activeTab, staleRuns, searchModal, discovery, selectedId,
                   importState, deleteModal, toast, usedIds, deletedIds>>

\* the back button of the form
Back ==
    /\ OnPage /\ IsEditing /\ ~DialogOpen
    /\ selectedId' = Null
    /\ importState' = "none"
    /\ formData' = ClosedForm
    /\ UNCHANGED <<searching, batch, instances, persisted, saves, launches, loads, activeTab, staleRuns, searchModal, discovery,
                   deleteModal, toast, usedIds, deletedIds>>

\* what handleSave hands to setInstances
\* fault: the form's instance is appended without the look-up by id
SavedListAppends(list, newInstance) == Append(list, newInstance)

SavedList(list, newInstance) ==
    IF newInstance.id \in Ids(list)
    THEN [i \in 1..Len(list) |-> IF list[i].id = newInstance.id THEN newInstance ELSE list[i]]
    ELSE Append(list, newInstance)

handleSave ==
    /\ OnPage /\ IsEditing /\ ~DialogOpen
    /\ IF FalsyStr(formData, "name") \/ FalsyStr(formData, "executablePath")
       THEN /\ toast' = Toast("name and path required", "error")
            /\ UNCHANGED <<instances, saves, importState, selectedId, formData>>
       ELSE /\ handleUpdateInstances(SavedList(instances, formData))
            /\ toast' = Toast("saved", "success")
            /\ importState' = "none"
            /\ selectedId' = Null
            /\ formData' = ClosedForm
    /\ UNCHANGED <<searching, batch, persisted, launches, loads, activeTab, staleRuns, searchModal, discovery, deleteModal,
                   usedIds, deletedIds>>

\* the form's delete button: the dialog opens on instances.find(i => i.id === selectedId)
ClickDelete ==
    /\ OnPage /\ selectedId # Null /\ ~DialogOpen
    /\ deleteModal' = [isOpen |-> TRUE,
                       instance |-> IF selectedId \in Ids(instances)
                                    THEN Find(instances, selectedId) ELSE EmptyObj]
    /\ UNCHANGED <<searching, batch, instances, persisted, saves, launches, loads, activeTab, staleRuns, searchModal, discovery, formData,
                   selectedId, importState, toast, usedIds, deletedIds>>

\* the dialog's onClose
CloseDeleteModal ==
    /\ OnPage /\ deleteModal.isOpen
    /\ deleteModal' = ClosedModal
    /\ UNCHANGED <<searching, batch, instances, persisted, saves, launches, loads, activeTab, staleRuns, searchModal, discovery, formData,
                   selectedId, importState, toast, usedIds, deletedIds>>

\* the dialog's onConfirm
handleDelete ==
    /\ OnPage /\ deleteModal.isOpen
    /\ IF deleteModal.instance = EmptyObj
       THEN UNCHANGED <<searching, instances, saves, deleteModal, selectedId, importState, toast,
                        formData>>
       ELSE /\ handleUpdateInstances(WithoutId(instances, deleteModal.instance.id))
            /\ deleteModal' = ClosedModal
            /\ selectedId' = Null
            /\ importState' = "none"
            /\ toast' = Toast("deleted", "success")
            /\ formData' = ClosedForm
    /\ UNCHANGED <<searching, batch, persisted, launches, loads, activeTab, staleRuns, searchModal, discovery, usedIds>>

\* history: the id a step of handleDelete removes is recorded
RecordDelete ==
    deletedIds' = IF deleteModal.instance = EmptyObj THEN deletedIds
                  ELSE deletedIds \cup {deleteModal.instance.id}

\* ------------------------------------------------------------ search import
\* the sources fetchGameResults asks for each keyword, in the order it asks them
Providers == <<"touchgal", "kungal">>

\* what get_directory_keywords can resolve with
KeywordLists == {<<>>, <<"k1">>, <<"k1", "k2">>}

\* a result of search_game; v tells apart results of one title and source
ProviderResult(title, source, v) ==
    [id |-> v, title |-> title, cover |-> IF v = 1 THEN "c1.png" ELSE "c2.png",
     source |-> source, url |-> "u"]

\* what search_game can resolve with for a source
Responses(source) ==
    {<<>>,
     <<ProviderResult("t1", source, 1)>>,
     <<ProviderResult("t2", source, 1), ProviderResult("t1", source, 2)>>}

\* keywords.flatMap(kw => [invoke(... 'touchgal'), invoke(... 'kungal')]): the
\* requests fetchGameResults issues, in order
Requests(keywords) ==
    [n \in 1..(Len(keywords) * Len(Providers)) |->
        [keyword |-> keywords[((n - 1) \div Len(Providers)) + 1],
         source |-> Providers[((n - 1) % Len(Providers)) + 1],
         state |-> "pending",
         results |-> <<>>]]

\* fault: the results of a request are merged when the request settles, in the
\* order in which the requests settle
AllResultsAsSettled(requests) ==
    LET ByRank(k) == CHOOSE n \in 1..Len(requests) : requests[n].rank = k
        S[k \in 0..Len(requests)] ==
            IF k = 0 THEN <<>> ELSE S[k - 1] \o requests[ByRank(k)].results
    IN  S[Len(requests)]

\* resultsArrays.forEach(arr => allResults.push(...arr))
AllResults(requests) ==
    LET S[n \in 0..Len(requests)] ==
            IF n = 0 THEN <<>> ELSE S[n - 1] \o requests[n].results
    IN  S[Len(requests)]

\* fault: the results are told apart by their id
KeyById(item) == ToString(item.id)

\* item.title + item.source
Key(item) == item.title \o item.source

\* fault: a key the map holds keeps the value it has
MapSetKeepFirst(map, key, value) ==
    IF \E i \in 1..Len(map) : map[i].key = key
    THEN map
    ELSE Append(map, [key |-> key, value |-> value])

\* Map.prototype.set: a key the map holds keeps its place and gets the value,
\* a new key goes last
MapSet(map, key, value) ==
    IF \E i \in 1..Len(map) : map[i].key = key
    THEN [i \in 1..Len(map) |->
             IF map[i].key = key THEN [key |-> key, value |-> value] ELSE map[i]]
    ELSE Append(map, [key |-> key, value |-> value])

\* allResults.forEach(item => uniqueMap.set(...)); Array.from(uniqueMap.values())
UniqueResults(allResults) ==
    LET M[n \in 0..Len(allResults)] ==
            IF n = 0 THEN <<>>
            ELSE MapSet(M[n - 1], Key(allResults[n]), allResults[n])
    IN  [i \in 1..Len(M[Len(allResults)]) |-> M[Len(allResults)][i].value]

\* the import dialog shows the pane named
SearchPane(pane) == OnPage /\ ~deleteModal.isOpen /\ importState = pane

\* the search button of the choice pane
ChooseSearchImport ==
    /\ SearchPane("choice")
    /\ importState' = "search_params"
    /\ UNCHANGED <<instances, persisted, saves, launches, loads, activeTab, staleRuns, searchModal, discovery, formData,
                   selectedId, deleteModal, batch, searching, toast, usedIds, deletedIds>>

\* the folder button: the file picker resolves with path
PickSearchExec(path) ==
    /\ SearchPane("search_params")
    /\ searchExecPath' = path
    /\ searchExecPath' # searchExecPath
    /\ UNCHANGED <<instances, persisted, saves, launches, loads, activeTab, staleRuns, searchModal, discovery, formData,
                   selectedId, importState, deleteModal, batch, isSearching,
                   searchResults, search, toast, usedIds, deletedIds>>

\* the back button of the parameters pane
SearchBack ==
    /\ SearchPane("search_params")
    /\ importState' = "choice"
    /\ UNCHANGED <<instances, persisted, saves, launches, loads, activeTab, staleRuns, searchModal, discovery, formData,
                   selectedId, deleteModal, batch, searching, toast, usedIds, deletedIds>>

\* the search button: handleSearchGame runs up to its first await
handleSearchGame ==
    /\ SearchPane("search_params")
    /\ searchExecPath # ""
    /\ ~isSearching
    /\ isSearching' = TRUE
    /\ search' = [phase |-> "keywords"]
    /\ UNCHANGED <<instances, persisted, saves, launches, loads, activeTab, staleRuns, searchModal, discovery, formData,
                   selectedId, importState, deleteModal, batch, searchExecPath,
                   searchResults, toast, usedIds, deletedIds>>

\* get_directory_keywords resolves: without keywords the handler returns, with
\* keywords fetchGameResults issues its requests
KeywordsDone(keywords) ==
    /\ search.phase = "keywords"
    /\ IF Len(keywords) = 0
       THEN /\ toast' = Toast("no keywords", "error")
            /\ isSearching' = FALSE
            /\ search' = NoCall
       ELSE /\ search' = [phase |-> "requests", requests |-> Requests(keywords)]
            /\ UNCHANGED <<toast, isSearching>>
    /\ UNCHANGED <<instances, persisted, saves, launches, loads, activeTab, staleRuns, searchModal, discovery, formData,
                   selectedId, importState, deleteModal, batch, searchExecPath,
                   searchResults, usedIds, deletedIds>>

\* get_directory_keywords rejects: the catch and the finally block
KeywordsFail ==
    /\ search.phase = "keywords"
    /\ toast' = Toast("search failed", "error")
    /\ isSearching' = FALSE
    /\ search' = NoCall
    /\ UNCHANGED <<instances, persisted, saves, launches, loads, activeTab, staleRuns, searchModal, discovery, formData,
                   selectedId, importState, deleteModal, batch, searchExecPath,
                   searchResults, usedIds, deletedIds>>

\* the steps of a call under way that set search and nothing else
SetSearch(call) ==
    /\ search' = call
    /\ UNCHANGED <<instances, persisted, saves, launches, loads, activeTab, staleRuns, searchModal, discovery, formData,
                   selectedId, importState, deleteModal, batch, searchExecPath,
                   isSearching, searchResults, toast, usedIds, deletedIds>>

\* a search_game request resolves with results
RequestResolve(n, results) ==
    /\ search.phase = "requests"
    /\ n \in 1..Len(search.requests)
    /\ search.requests[n].state = "pending"
    /\ results \in Responses(search.requests[n].source)
    /\ SetSearch([search EXCEPT !.requests[n].state = "resolved",
                                !.requests[n].results = results])

\* what search_game can resolve with when the source of a result is any
\* provider identifier: SearchResult.source is a string the backend sets
ProviderResponses ==
    {<<>>,
     <<ProviderResult("xkun", "gal", 1)>>,
     <<ProviderResult("x", "kungal", 1)>>,
     <<ProviderResult("x", "gal", 1)>>}

\* a search_game request resolves with results of any provider identifier
ProviderResolve(n, results) ==
    /\ search.phase = "requests"
    /\ n \in 1..Len(search.requests)
    /\ search.requests[n].state = "pending"
    /\ results \in ProviderResponses
    /\ SetSearch([search EXCEPT !.requests[n].state = "resolved",
                                !.requests[n].results = results])

\* a search_game request rejects: .catch(() => [])
RequestReject(n) ==
    /\ search.phase = "requests"
    /\ n \in 1..Len(search.requests)
    /\ search.requests[n].state = "pending"
    /\ SetSearch([search EXCEPT !.requests[n].state = "rejected",
                                !.requests[n].results = <<>>])

\* history: the number of requests that have settled
Settled(requests) ==
    Cardinality({n \in 1..Len(requests) : requests[n].state # "pending"})

\* a search_game request resolves with results; history: rank is its place in
\* the order in which the requests of the call settle
RankedResolve(n, results) ==
    /\ search.phase = "requests"
    /\ n \in 1..Len(search.requests)
    /\ search.requests[n].state = "pending"
    /\ results \in Responses(search.requests[n].source)
    /\ SetSearch([search EXCEPT !.requests[n] =
                      Spread(@, [state |-> "resolved", results |-> results,
                                 rank |-> Settled(search.requests) + 1])])

\* a search_game request rejects: .catch(() => []); history: rank
RankedReject(n) ==
    /\ search.phase = "requests"
    /\ n \in 1..Len(search.requests)
    /\ search.requests[n].state = "pending"
    /\ SetSearch([search EXCEPT !.requests[n] =
                      Spread(@, [state |-> "rejected", results |-> <<>>,
                                 rank |-> Settled(search.requests) + 1])])

\* every request of the call has settled
AllSettled ==
    /\ search.phase = "requests"
    /\ \A n \in 1..Len(search.requests) : search.requests[n].state # "pending"

\* fault: the rejection of a request rejects Promise.all, and handleSearchGame
\* ends in its catch block
SearchDoneFailsOnReject ==
    /\ AllSettled
    /\ IF \E n \in 1..Len(search.requests) : search.requests[n].state = "rejected"
       THEN /\ toast' = Toast("search failed", "error")
            /\ UNCHANGED <<searchResults, importState>>
       ELSE /\ searchResults' = UniqueResults(AllResults(search.requests))
            /\ importState' = "search_results"
            /\ toast' = toast
    /\ isSearching' = FALSE
    /\ search' = NoCall
    /\ UNCHANGED <<instances, persisted, saves, launches, loads, activeTab, staleRuns, searchModal, discovery, formData,
                   selectedId, deleteModal, batch, searchExecPath, usedIds, deletedIds>>

\* Promise.all resolves: the rest of fetchGameResults and of handleSearchGame
SearchDone ==
    /\ AllSettled
    /\ searchResults' = UniqueResults(AllResults(search.requests))
    /\ importState' = "search_results"
    /\ isSearching' = FALSE
    /\ search' = NoCall
    /\ UNCHANGED <<instances, persisted, saves, launches, loads, activeTab, staleRuns, searchModal, discovery, formData,
                   selectedId, deleteModal, batch, searchExecPath, toast, usedIds,
                   deletedIds>>

\* a result of the results pane is clicked: the form opens on it; id: what
\* crypto.randomUUID() returns
ChooseSearchResult(n, id) ==
    /\ SearchPane("search_results")
    /\ n \in 1..Len(searchResults)
    /\ id \in IdSet \ usedIds
    /\ usedIds' = usedIds \cup {id}
    /\ formData' =
          [f \in {"id", "name", "backgroundImage", "executablePath", "bottleName", "info"} |->
              CASE f = "id" -> id
                [] f = "name" -> searchResults[n].title
                [] f = "backgroundImage" -> searchResults[n].cover
                [] f = "executablePath" -> searchExecPath
                [] f = "bottleName" -> DefaultBottle
                [] f = "info" -> ""]
    /\ importState' = "manual_form"
    /\ UNCHANGED <<instances, persisted, saves, launches, loads, activeTab, staleRuns, searchModal, discovery, selectedId,
                   deleteModal, batch, searching, toast, deletedIds>>

\* the button of the results pane that goes back to the parameters
SearchAgain ==
    /\ SearchPane("search_results")
    /\ importState' = "search_params"
    /\ UNCHANGED <<instances, persisted, saves, launches, loads, activeTab, staleRuns, searchModal, discovery, formData,
                   selectedId, deleteModal, batch, searching, toast, usedIds, deletedIds>>

\* the button of the results pane that opens the form without a result
ManualFromResults(id) ==
    /\ SearchPane("search_results")
    /\ id \in IdSet \ usedIds
    /\ usedIds' = usedIds \cup {id}
    /\ formData' = [f \in {"id", "executablePath", "bottleName"} |->
                       CASE f = "id" -> id
                         [] f = "executablePath" -> searchExecPath
                         [] f = "bottleName" -> DefaultBottle]
    /\ importState' = "manual_form"
    /\ UNCHANGED <<instances, persisted, saves, launches, loads, activeTab, staleRuns, searchModal, discovery, selectedId,
                   deleteModal, batch, searching, toast, deletedIds>>

\* ------------------------------------------------------------ batch import
\* a || b for strings: b when a is undefined or empty
StrOr(obj, k, b) == IF FalsyStr(obj, k) THEN b ELSE obj[k]

\* what scan_game_directories returns for a directory of the game named dir
ScannedDir(dir) ==
    [dir_name |-> dir,
     executables |-> IF dir = "d1" THEN <<"x.exe", "y.exe">> ELSE <<"x.exe">>]

\* what scan_game_directories returns for a directory it lists with no
\* executable
EmptyDir == [dir_name |-> "d3", executables |-> <<>>]

\* what scan_game_directories can return when a directory it lists can be
\* without executables
AnyScanResults == {<<>>, <<ScannedDir("d2")>>, <<EmptyDir>>, <<ScannedDir("d2"), EmptyDir>>}

\* what the user can type in the path field of the form
FormPaths == ExecPaths \cup {""}

\* the executables of a scanned directory
BatchExecs == {"x.exe", "y.exe"}

\* what scan_game_directories can return
ScanResults == {<<>>, <<ScannedDir("d1")>>, <<ScannedDir("d1"), ScannedDir("d2")>>}

\* a SearchResult of the aggregator
SearchResult(n) ==
    [id |-> n, title |-> IF n = 1 THEN "t1" ELSE "t2",
     cover |-> IF n = 1 THEN "c1.png" ELSE "c2.png", source |-> "touchgal", url |-> "u"]

\* what fetchGameResults can return
FetchResults == {<<>>, <<SearchResult(1), SearchResult(2)>>}

\* how the two awaits of one turn of the matching loop can end
MatchOutcomes ==
    {[keywords |-> "none", results |-> <<>>], [keywords |-> "rejected", results |-> <<>>]}
        \cup {[keywords |-> "some", results |-> r] : r \in FetchResults}

\* what the user can type in the name and cover fields of a BatchItem
ManualNames == Names \cup {""}
ManualCovers == {"m.png"}

\* the n least ids of the pool that are not in used, in order
LeastIds(pool, used, n) ==
    LET free == pool \ used
        Nth[k \in 0..n] ==
            IF k = 0 THEN <<>>
            ELSE Append(Nth[k - 1],
                        CHOOSE x \in free :
                            Cardinality({y \in free : y < x}) = k - 1)
    IN  Nth[n]

\* fault: the BatchItems are numbered by their place in the scan
ItemIdsByIndex(used, n) == [k \in 1..n |-> k]

\* the ids crypto.randomUUID() returns for the n BatchItems of a scan
NewItemIds(used, n) == LeastIds(BatchIdSet, used, n)

\* the ids crypto.randomUUID() returns for the n instances of a commit
NewInstanceIds(used, n) == LeastIds(BatchIdSet, used, n)

\* the BatchItem handleBatchImportClick builds for a scanned directory
NewBatchItem(id, d) ==
    [id |-> id, selected |-> TRUE, dirName |-> d.dir_name, executables |-> d.executables,
     selectedExec |-> IF Len(d.executables) = 0 THEN Undefined ELSE d.executables[1],
     bottleName |-> DefaultBottle, status |-> "pending",
     matchedResult |-> EmptyObj, searchResults |-> <<>>, manualInfo |-> EmptyObj]

\* the render of the item being edited reads a field of undefined
RenderThrows ==
    isBatchModalOpen /\ editingBatchItemId # Null /\ editingBatchItemId \notin Ids(batchItems)

\* the batch dialog shows and answers
BatchDialog == OnPage /\ isBatchModalOpen /\ ~RenderThrows

\* the table of the dialog shows
BatchTable == BatchDialog /\ editingBatchItemId = Null

\* the edit pane of the dialog shows
BatchEditPane == BatchDialog /\ editingBatchItemId # Null

\* the click: handleBatchImportClick runs up to its await
handleBatchImportClick ==
    /\ OnPage /\ ~IsEditing /\ ~DialogOpen
    /\ scans' = scans + 1
    /\ UNCHANGED <<searching, instances, persisted, saves, launches, loads, activeTab, staleRuns, searchModal, discovery, formData,
                   selectedId, importState, deleteModal, isBatchModalOpen, batchItems,
                   isBatchMatching, editingBatchItemId, matchQueue, toast, usedIds,
                   deletedIds>>

\* the directory picker is dismissed: selected is null
ScanCancelled ==
    /\ scans > 0
    /\ scans' = scans - 1
    /\ UNCHANGED <<searching, instances, persisted, saves, launches, loads, activeTab, staleRuns, searchModal, discovery, formData,
                   selectedId, importState, deleteModal, isBatchModalOpen, batchItems,
                   isBatchMatching, editingBatchItemId, matchQueue, toast, usedIds,
                   deletedIds>>

\* scan_game_directories resolves with dirs: the rest of the try block
ScanDone(dirs) ==
    /\ scans > 0
    /\ scans' = scans - 1
    /\ IF Len(dirs) = 0
       THEN /\ toast' = Toast("no game found", "error")
            /\ UNCHANGED <<batchItems, isBatchModalOpen, usedIds>>
       ELSE LET ids == NewItemIds(usedIds, Len(dirs))
            IN  /\ batchItems' = [i \in 1..Len(dirs) |-> NewBatchItem(ids[i], dirs[i])]
                /\ isBatchModalOpen' = TRUE
                /\ usedIds' = usedIds \cup {ids[i] : i \in 1..Len(dirs)}
                /\ toast' = toast
    /\ UNCHANGED <<searching, instances, persisted, saves, launches, loads, activeTab, staleRuns, searchModal, discovery, formData,
                   selectedId, importState, deleteModal, isBatchMatching,
                   editingBatchItemId, matchQueue, deletedIds>>

\* scan_game_directories rejects: the catch block
ScanFail ==
    /\ scans > 0
    /\ scans' = scans - 1
    /\ toast' = Toast("scan failed", "error")
    /\ UNCHANGED <<searching, instances, persisted, saves, launches, loads, activeTab, staleRuns, searchModal, discovery, formData,
                   selectedId, importState, deleteModal, isBatchModalOpen, batchItems,
                   isBatchMatching, editingBatchItemId, matchQueue, usedIds, deletedIds>>

\* fault: the update of an item is lost
updateBatchItemLosesUpdate(items, id, updates) == items

\* prev.map(item => item.id === id ? { ...item, ...updates } : item)
updateBatchItem(items, id, updates) ==
    [i \in 1..Len(items) |-> IF items[i].id = id THEN Spread(items[i], updates) ELSE items[i]]

\* the steps of the dialog that set batchItems and nothing else
SetBatchItems(items) ==
    /\ batchItems' = items
    /\ UNCHANGED <<searching, instances, persisted, saves, launches, loads, activeTab, staleRuns, searchModal, discovery, formData,
                   selectedId, importState, deleteModal, isBatchModalOpen,
                   isBatchMatching, editingBatchItemId, matchQueue, scans, toast, usedIds,
                   deletedIds>>

\* the close button of the dialog
CloseBatchModal ==
    /\ BatchDialog
    /\ isBatchModalOpen' = FALSE
    /\ UNCHANGED <<searching, instances, persisted, saves, launches, loads, activeTab, staleRuns, searchModal, discovery, formData,
                   selectedId, importState, deleteModal, batchItems, isBatchMatching,
                   editingBatchItemId, matchQueue, scans, toast, usedIds, deletedIds>>

\* the row checkbox
ToggleSelected(i) ==
    /\ BatchTable
    /\ i \in 1..Len(batchItems)
    /\ SetBatchItems(updateBatchItem(batchItems, batchItems[i].id,
                                     [selected |-> ~batchItems[i].selected]))

\* isAllSelected
IsAllSelected ==
    Len(batchItems) > 0 /\ \A i \in 1..Len(batchItems) : batchItems[i].selected

\* the checkbox of the table's head
toggleSelectAll ==
    /\ BatchTable
    /\ SetBatchItems([i \in 1..Len(batchItems) |->
                         Spread(batchItems[i], [selected |-> ~IsAllSelected])])
    /\ batchItems' # batchItems

\* the row's executable select
SelectExec(i, exe) ==
    /\ BatchTable
    /\ i \in 1..Len(batchItems)
    /\ exe \in {batchItems[i].executables[n] : n \in 1..Len(batchItems[i].executables)}
    /\ exe # batchItems[i].selectedExec
    /\ SetBatchItems(updateBatchItem(batchItems, batchItems[i].id, [selectedExec |-> exe]))

\* the row's edit button
EditBatchItem(i) ==
    /\ BatchTable
    /\ i \in 1..Len(batchItems)
    /\ editingBatchItemId' = batchItems[i].id
    /\ UNCHANGED <<searching, instances, persisted, saves, launches, loads, activeTab, staleRuns, searchModal, discovery, formData,
                   selectedId, importState, deleteModal, isBatchModalOpen, batchItems,
                   isBatchMatching, matchQueue, scans, toast, usedIds, deletedIds>>

\* the back buttons of the edit pane
CloseBatchEdit ==
    /\ BatchEditPane
    /\ editingBatchItemId' = Null
    /\ UNCHANGED <<searching, instances, persisted, saves, launches, loads, activeTab, staleRuns, searchModal, discovery, formData,
                   selectedId, importState, deleteModal, isBatchModalOpen, batchItems,
                   isBatchMatching, matchQueue, scans, toast, usedIds, deletedIds>>

\* a result of the edit pane is clicked
ChooseMatchedResult(n) ==
    /\ BatchEditPane
    /\ LET item == Find(batchItems, editingBatchItemId)
       IN  /\ n \in 1..Len(item.searchResults)
           /\ batchItems' = updateBatchItem(batchItems, item.id,
                                            [matchedResult |-> item.searchResults[n]])
    /\ editingBatchItemId' = Null
    /\ UNCHANGED <<searching, instances, persisted, saves, launches, loads, activeTab, staleRuns, searchModal, discovery, formData,
                   selectedId, importState, deleteModal, isBatchModalOpen,
                   isBatchMatching, matchQueue, scans, toast, usedIds, deletedIds>>

\* typing in the name or the cover field of the edit pane
SetManualInfo(key, value) ==
    /\ BatchEditPane
    /\ LET item == Find(batchItems, editingBatchItemId)
       IN  /\ StrOr(item.manualInfo, key, "") # value
           /\ SetBatchItems(updateBatchItem(batchItems, item.id,
                                [manualInfo |-> Assign(item.manualInfo, key, value)]))

\* fault: every selected item that is not in a run is matched again
ToMatchAnySelected(item) == item.selected /\ item.status # "matching"

\* i.selected && (i.status === 'pending' || i.status === 'unmatched')
ToMatch(item) == item.selected /\ item.status \in {"pending", "unmatched"}

\* batchItems.filter(...): the ids of itemsToMatch, in order
ItemsToMatch(items) ==
    LET S[n \in 0..Len(items)] ==
            IF n = 0 THEN <<>>
            ELSE IF ToMatch(items[n]) THEN Append(S[n - 1], items[n].id) ELSE S[n - 1]
    IN  S[Len(items)]

\* the match button: handleStartBatchMatching runs up to its first await, or
\* to its end when there is nothing to match
handleStartBatchMatching ==
    /\ BatchDialog
    /\ ~isBatchMatching
    /\ \E i \in 1..Len(batchItems) : batchItems[i].selected
    /\ LET itemsToMatch == ItemsToMatch(batchItems)
       IN  /\ batchItems' = [i \in 1..Len(batchItems) |->
                                IF \E k \in 1..Len(itemsToMatch) :
                                       itemsToMatch[k] = batchItems[i].id
                                THEN Spread(batchItems[i], [status |-> "matching"])
                                ELSE batchItems[i]]
           /\ matchQueue' = itemsToMatch
           /\ isBatchMatching' = (itemsToMatch # <<>>)
    /\ UNCHANGED <<searching, instances, persisted, saves, launches, loads, activeTab, staleRuns, searchModal, discovery, formData,
                   selectedId, importState, deleteModal, isBatchModalOpen,
                   editingBatchItemId, scans, toast, usedIds, deletedIds>>

\* fault: an attempt that fails puts the item back to pending
MatchUpdatesPendingOnError(outcome) ==
    IF outcome.keywords = "rejected" THEN [status |-> "pending", searchResults |-> <<>>]
    ELSE IF outcome.keywords = "none" \/ Len(outcome.results) = 0
    THEN [status |-> "unmatched", searchResults |-> <<>>]
    ELSE [status |-> "matched", matchedResult |-> outcome.results[1],
          searchResults |-> outcome.results]

\* fault: an empty list of results counts as a match
MatchUpdatesEmptyMatched(outcome) ==
    IF outcome.keywords # "some"
    THEN [status |-> "unmatched", searchResults |-> <<>>]
    ELSE [status |-> "matched",
          matchedResult |-> IF Len(outcome.results) > 0 THEN outcome.results[1]
                            ELSE EmptyObj,
          searchResults |-> outcome.results]

\* fault: the catch block of the loop leaves the status of the item as it is
MatchUpdatesSkipsOnError(outcome) ==
    IF outcome.keywords = "rejected" THEN [searchResults |-> <<>>]
    ELSE IF outcome.keywords = "none" \/ Len(outcome.results) = 0
    THEN [status |-> "unmatched", searchResults |-> <<>>]
    ELSE [status |-> "matched", matchedResult |-> outcome.results[1],
          searchResults |-> outcome.results]

\* the updates one turn of the loop hands to updateBatchItem
MatchUpdates(outcome) ==
    IF outcome.keywords # "some" \/ Len(outcome.results) = 0
    THEN [status |-> "unmatched", searchResults |-> <<>>]
    ELSE [status |-> "matched", matchedResult |-> outcome.results[1],
          searchResults |-> outcome.results]

\* fault: an error of get_directory_keywords is not caught in the loop, and
\* the run ends at the item that failed
MatchSettledStopsOnError(outcome) ==
    /\ matchQueue # <<>>
    /\ batchItems' = updateBatchItem(batchItems, Head(matchQueue), MatchUpdates(outcome))
    /\ matchQueue' = IF outcome.keywords = "rejected" THEN <<>> ELSE Tail(matchQueue)
    /\ isBatchMatching' = IF matchQueue' = <<>> THEN FALSE ELSE isBatchMatching
    /\ UNCHANGED <<searching, instances, persisted, saves, launches, loads, activeTab,
                   staleRuns, searchModal, discovery, formData, selectedId, importState, deleteModal,
                   isBatchModalOpen, editingBatchItemId, scans, toast, usedIds, deletedIds>>

\* one turn of the loop of handleStartBatchMatching ends; after the last one
\* the run is over
MatchSettled(outcome) ==
    /\ matchQueue # <<>>
    /\ batchItems' = updateBatchItem(batchItems, Head(matchQueue), MatchUpdates(outcome))
    /\ matchQueue' = Tail(matchQueue)
    /\ isBatchMatching' = IF Tail(matchQueue) = <<>> THEN FALSE ELSE isBatchMatching
    /\ UNCHANGED <<searching, instances, persisted, saves, launches, loads, activeTab, staleRuns, searchModal, discovery, formData,
                   selectedId, importState, deleteModal, isBatchModalOpen,
                   editingBatchItemId, scans, toast, usedIds, deletedIds>>

\* one turn of the loop of a page that was unmounted ends: updateBatchItem and
\* setIsBatchMatching set the state of a component that is gone, and the loop
\* goes on to its next item
StaleSettled(k) ==
    /\ k \in 1..Len(staleRuns)
    /\ staleRuns' = IF staleRuns[k] = 1
                    THEN SubSeq(staleRuns, 1, k - 1) \o SubSeq(staleRuns, k + 1, Len(staleRuns))
                    ELSE [staleRuns EXCEPT ![k] = @ - 1]
    /\ UNCHANGED <<searching, batch, instances, persisted, saves, launches, loads, activeTab,
                   searchModal, discovery, formData, selectedId, importState, deleteModal, toast, usedIds,
                   deletedIds>>

\* the number of items whose attempt is under way: get_directory_keywords or
\* the requests of fetchGameResults have been issued for them and not settled.
\* Every loop that has not ended has one.
Outstanding == (IF matchQueue = <<>> THEN 0 ELSE 1) + Len(staleRuns)

\* fault: every item of the dialog is imported
AllItems(items) == items

\* batchItems.filter(i => i.selected)
ToImport(items) ==
    LET S[n \in 0..Len(items)] ==
            IF n = 0 THEN <<>>
            ELSE IF items[n].selected THEN Append(S[n - 1], items[n]) ELSE S[n - 1]
    IN  S[Len(items)]

\* the instance handleConfirmBatchImport builds for an item
BatchInstance(id, item) ==
    LET finalName == StrOr(item.manualInfo, "name",
                           StrOr(item.matchedResult, "title", item.dirName))
        finalCover == StrOr(item.manualInfo, "backgroundImage",
                            StrOr(item.matchedResult, "cover", Undefined))
    IN  [f \in {"id", "name", "bottleName", "executablePath", "info", "backgroundImage"} |->
            CASE f = "id" -> id
              [] f = "name" -> finalName
              [] f = "bottleName" -> item.bottleName
              [] f = "executablePath" -> item.selectedExec
              [] f = "info" -> StrOr(item.manualInfo, "info", "")
              [] f = "backgroundImage" -> finalCover]

\* the import button
handleConfirmBatchImport ==
    /\ BatchDialog
    /\ ~isBatchMatching
    /\ LET toImport == ToImport(batchItems)
           ids == NewInstanceIds(usedIds, Len(toImport))
       IN  IF Len(toImport) = 0
           THEN /\ toast' = Toast("select a game", "error")
                /\ UNCHANGED <<instances, saves, isBatchModalOpen, batchItems, usedIds>>
           ELSE /\ handleUpdateInstances(
                       instances \o [i \in 1..Len(toImport) |->
                                        BatchInstance(ids[i], toImport[i])])
                /\ isBatchModalOpen' = FALSE
                /\ batchItems' = <<>>
                /\ toast' = Toast("batch imported", "success")
                /\ usedIds' = usedIds \cup {ids[i] : i \in 1..Len(toImport)}
    /\ UNCHANGED <<searching, persisted, launches, loads, activeTab, staleRuns, searchModal, discovery, formData, selectedId,
                   importState, deleteModal, isBatchMatching, editingBatchItemId,
                   matchQueue, scans, deletedIds>>

\* ------------------------------------------------------------ specification
\* the environment's bounds
SaveSlot == Len(saves) < MaxSaves
PersistSaveSlot == Len(saves) < MaxPersistSaves

\* the play time the instance the event names would have is within the bound
PlayBound(instance_id, duration_sec, bound) ==
    \A i \in 1..Len(instances) :
        instances[i].id = instance_id =>
            LET t == NumOr(instances[i], "totalPlayTime", 0) + duration_sec
            IN  t <= bound /\ -t <= bound

\* what the user does on the page, but for the handlers that issue a save
PageSteps ==
    \/ \E tab \in {"home", "instances"} : SetActiveTab(tab)
    \/ OpenImportChoice
    \/ CloseImportDialog
    \/ \E id \in IdSet : ChooseManualImport(id)
    \/ \E i \in IdSet : OpenEdit(i)
    \/ \E v \in Names : SetField("name", v)
    \/ \E v \in ExecPaths : SetField("executablePath", v)
    \/ Back
    \/ ClickDelete
    \/ CloseDeleteModal

\* Spec: the page, the listener and handleLaunch, over a backend that answers
\* a save before the next one is issued and never fails one; the only load is
\* the one the mount effect issues.
SpecSteps ==
    \/ \E k \in 1..MaxLoads : LoadRead(k) \/ LoadDone(k) \/ LoadFail(k)
    \/ \E k \in 1..MaxSaves : SaveDone(k)
    \/ \E id \in IdSet, d \in SpecDurations, t \in Times :
          SaveSlot /\ PlayBound(id, d, MaxPlay) /\ GameFinished(id, d, t)
    \/ \E i \in IdSet : Len(launches) < MaxLaunches /\ ClickLaunch(i)
    \/ \E k \in 1..MaxLaunches, t \in Times : SaveSlot /\ LaunchSuccess(k, t)
    \/ \E k \in 1..MaxLaunches : LaunchFail(k)
    \/ PageSteps
    \/ SaveSlot /\ handleSave

Next ==
    \/ SpecSteps
    \/ SaveSlot /\ handleDelete /\ UNCHANGED deletedIds

Spec == Init /\ [][Next]_vars

\* SpecDelete: Spec, with the ids handleDelete removes recorded in deletedIds
NextDelete ==
    \/ SpecSteps
    \/ SaveSlot /\ handleDelete /\ RecordDelete

SpecDelete == Init /\ [][NextDelete]_vars

\* the state once the load the mount effect issued has resolved with the file cat
Loaded(cat) ==
    /\ persisted = JSONStringify(cat)
    /\ instances = sortInstances(JSONParse(persisted))
    /\ usedIds = Ids(cat)
    /\ saves = <<>>
    /\ launches = <<>>
    /\ loads = <<>>
    /\ activeTab = "home"
    /\ formData = EmptyObj
    /\ selectedId = Null
    /\ importState = "none"
    /\ deleteModal = ClosedModal
    /\ NoBatch
    /\ NoSearch
    /\ searchModal = ClosedSearchModal
    /\ discovery = NoDiscovery
    /\ toast = NoToast
    /\ deletedIds = {}

\* SpecBurst: the page and the listener after the load, over a backend that
\* answers the saves outstanding in any order and fails none.
InitBurst == \E cat \in InitialCatalogues : Loaded(cat)

NextBurst ==
    \/ \E k \in 1..MaxPersistSaves : SaveDone(k)
    \/ \E id \in IdSet, d \in SpecDurations, t \in Times :
          PersistSaveSlot /\ PlayBound(id, d, MaxPlay) /\ GameFinished(id, d, t)
    \/ PageSteps
    \/ PersistSaveSlot /\ handleSave
    \/ PersistSaveSlot /\ handleDelete /\ UNCHANGED deletedIds

SpecBurst == InitBurst /\ [][NextBurst]_vars

\* an instance an earlier run left on disk with a second played on each of
\* the first days
PlayedInstance(id, days) ==
    Spread(StoredInstance(id),
           [f \in {"totalPlayTime", "playHistory"} |->
               IF f = "totalPlayTime" THEN days
               ELSE [d \in {Days[n] : n \in 1..days} |-> 1]])

EventInstances(id) ==
    {StoredInstance(id), PlayedInstance(id, 1),
     Assign(PlayedInstance(id, 2), "lastPlayed", 1)}

EventCatalogues ==
    {sortInstances(<<a>>) : a \in EventInstances(1)}
        \cup {sortInstances(<<a, b>>) : a \in EventInstances(1), b \in EventInstances(2)}

\* SpecEvents: the listener alone, on catalogues with play sessions on record
InitEvents == \E cat \in EventCatalogues : Loaded(cat)

NextEvents ==
    \/ \E k \in 1..MaxSaves : SaveDone(k)
    \/ \E id \in IdSet, d \in Durations, t \in EventTimes :
          SaveSlot /\ PlayBound(id, d, MaxEventPlay) /\ GameFinished(id, d, t)

SpecEvents == InitEvents /\ [][NextEvents]_vars

\* what the user does on the page in SpecPersist: imports, no edits
PersistPageSteps ==
    \/ \E tab \in {"home", "instances"} : SetActiveTab(tab)
    \/ OpenImportChoice
    \/ CloseImportDialog
    \/ \E id \in IdSet : ChooseManualImport(id)
    \/ \E v \in Names : SetField("name", v)
    \/ \E v \in ExecPaths : SetField("executablePath", v)
    \/ Back

\* SpecPersist: imports and the listener over a backend that answers a save
\* before the next one is issued, may fail it, and serves the refresh button;
\* nothing is launched.
NextPersist ==
    \/ Len(loads) < MaxLoads /\ RequestLoad
    \/ \E k \in 1..MaxLoads : LoadRead(k) \/ LoadDone(k) \/ LoadFail(k)
    \/ \E k \in 1..MaxSaves : SaveDone(k) \/ SaveFail(k)
    \/ \E id \in IdSet, d \in SpecDurations, t \in Times :
          SaveSlot /\ PlayBound(id, d, MaxPlay) /\ GameFinished(id, d, t)
    \/ PersistPageSteps
    \/ SaveSlot /\ handleSave

\* the process starts on a file that holds an instance, played or not
PersistCatalogues == {<<StoredInstance(1)>>, <<Assign(StoredInstance(1), "lastPlayed", 1)>>}

InitPersist ==
    /\ instances = INITIAL_INSTANCES
    /\ \E cat \in PersistCatalogues :
          /\ persisted = JSONStringify(cat)
          /\ usedIds = Ids(cat)
    /\ saves = <<>>
    /\ launches = <<>>
    /\ loads = <<[isManual |-> FALSE, read |-> FALSE, data |-> JSONStringify(<<>>)]>>
    /\ activeTab = "home"
    /\ formData = EmptyObj
    /\ selectedId = Null
    /\ importState = "none"
    /\ deleteModal = ClosedModal
    /\ NoBatch
    /\ NoSearch
    /\ searchModal = ClosedSearchModal
    /\ discovery = NoDiscovery
    /\ toast = NoToast
    /\ deletedIds = {}

SpecPersist == InitPersist /\ [][NextPersist]_vars

\* crypto.randomUUID() has n ids left to return
FreshIds(n) == Cardinality(BatchIdSet \ usedIds) >= n

\* SpecBatch: the batch import dialog after the load, over a backend that
\* answers a save before the next one is issued and fails none. Once a render
\* has thrown the tree is unmounted and no control is left to click. The tab
\* is left when no matching run is under way; SpecRuns has the runs that
\* outlive their page.
InitBatch == Loaded(<<StoredInstance(1)>>)

NextBatch ==
    \/ \E tab \in {"home", "instances"} :
          ~RenderThrows /\ matchQueue = <<>> /\ SetActiveTab(tab)
    \/ scans < MaxScans /\ Len(instances) <= MaxBatchCatalogue /\ handleBatchImportClick
    \/ ScanCancelled
    \/ \E dirs \in ScanResults : FreshIds(Len(dirs)) /\ ScanDone(dirs)
    \/ ScanFail
    \/ CloseBatchModal
    \/ \E i \in 1..MaxDirs : ToggleSelected(i)
    \/ toggleSelectAll
    \/ \E i \in 1..MaxDirs, exe \in BatchExecs : SelectExec(i, exe)
    \/ \E i \in 1..MaxDirs : EditBatchItem(i)
    \/ CloseBatchEdit
    \/ \E n \in 1..MaxDirs : ChooseMatchedResult(n)
    \/ \E v \in ManualNames : SetManualInfo("name", v)
    \/ \E v \in ManualCovers : SetManualInfo("backgroundImage", v)
    \/ handleStartBatchMatching
    \/ \E outcome \in MatchOutcomes : MatchSettled(outcome)
    \/ SaveSlot /\ FreshIds(Len(ToImport(batchItems))) /\ handleConfirmBatchImport
    \/ \E k \in 1..MaxSaves : SaveDone(k)

SpecBatch == InitBatch /\ [][NextBatch]_vars

\* SpecRuns: the matching runs of the batch import, those that go on after
\* the dialog was closed or the tab was left included, over the same backend.
\* The edit pane of the dialog is left out.
InitRuns == Loaded(<<StoredInstance(1)>>)

NextRuns ==
    \/ \E tab \in {"home", "instances"} :
          /\ matchQueue = <<>> \/ Len(staleRuns) < MaxStaleRuns
          /\ SetActiveTab(tab)
    \/ scans < MaxScans /\ Len(instances) <= MaxBatchCatalogue /\ handleBatchImportClick
    \/ ScanCancelled
    \/ \E dirs \in ScanResults : FreshIds(Len(dirs)) /\ ScanDone(dirs)
    \/ ScanFail
    \/ CloseBatchModal
    \/ \E i \in 1..MaxDirs : ToggleSelected(i)
    \/ toggleSelectAll
    \/ handleStartBatchMatching
    \/ \E outcome \in MatchOutcomes : MatchSettled(outcome)
    \/ \E k \in 1..MaxStaleRuns : StaleSettled(k)
    \/ SaveSlot /\ FreshIds(Len(ToImport(batchItems))) /\ handleConfirmBatchImport
    \/ \E k \in 1..MaxSaves : SaveDone(k)

SpecRuns == InitRuns /\ [][NextRuns]_vars

\* SpecScan: the form and the batch import over a scan that can list a
\* directory without executables, over the same backend
InitScan == Loaded(<<StoredInstance(1)>>)

NextScan ==
    \/ \E tab \in {"home", "instances"} : SetActiveTab(tab)
    \/ OpenImportChoice
    \/ CloseImportDialog
    \/ \E id \in IdSet : ChooseManualImport(id)
    \/ \E i \in IdSet : OpenEdit(i)
    \/ \E v \in ManualNames : SetField("name", v)
    \/ \E v \in FormPaths : SetField("executablePath", v)
    \/ Back
    \/ SaveSlot /\ handleSave
    \/ scans < MaxScans /\ Len(instances) <= MaxBatchCatalogue /\ handleBatchImportClick
    \/ ScanCancelled
    \/ \E dirs \in AnyScanResults : FreshIds(Len(dirs)) /\ ScanDone(dirs)
    \/ ScanFail
    \/ CloseBatchModal
    \/ \E i \in 1..MaxDirs : ToggleSelected(i)
    \/ toggleSelectAll
    \/ SaveSlot /\ FreshIds(Len(ToImport(batchItems))) /\ handleConfirmBatchImport
    \/ \E k \in 1..MaxSaves : SaveDone(k)

SpecScan == InitScan /\ [][NextScan]_vars

\* FairRuns: SpecRuns where every call to the backend a loop awaits returns or
\* fails in the end, so that a turn of a loop that has items left ends
FairRuns ==
    /\ SpecRuns
    /\ WF_vars(\E outcome \in MatchOutcomes : MatchSettled(outcome))
    /\ WF_vars(\E k \in 1..MaxStaleRuns : StaleSettled(k))

\* SpecSearch: the search of the single import after the load, over a backend
\* that answers a save before the next one is issued and fails none.
InitSearch == Loaded(<<StoredInstance(1)>>)

NextSearch ==
    \/ \E tab \in {"home", "instances"} : SetActiveTab(tab)
    \/ OpenImportChoice
    \/ CloseImportDialog
    \/ ChooseSearchImport
    \/ \E path \in ExecPaths : PickSearchExec(path)
    \/ SearchBack
    \/ Len(searchResults) <= MaxListed /\ handleSearchGame
    \/ \E keywords \in KeywordLists : KeywordsDone(keywords)
    \/ KeywordsFail
    \/ \E n \in 1..MaxRequests :
          \/ \E results \in UNION {Responses(Providers[j]) : j \in 1..Len(Providers)} :
                RequestResolve(n, results)
          \/ RequestReject(n)
    \/ SearchDone
    \/ \E n \in 1..MaxResults, id \in IdSet : ChooseSearchResult(n, id)
    \/ SearchAgain
    \/ \E id \in IdSet : ManualFromResults(id)
    \/ \E v \in Names : SetField("name", v)
    \/ Back
    \/ SaveSlot /\ handleSave
    \/ \E k \in 1..MaxSaves : SaveDone(k)

SpecSearch == InitSearch /\ [][NextSearch]_vars

\* SpecSources: the search of the single import over a backend whose results
\* carry any provider identifier as their source
InitSources == Loaded(<<StoredInstance(1)>>)

NextSources ==
    \/ \E tab \in {"home", "instances"} : SetActiveTab(tab)
    \/ OpenImportChoice
    \/ CloseImportDialog
    \/ ChooseSearchImport
    \/ \E path \in ExecPaths : PickSearchExec(path)
    \/ SearchBack
    \/ Len(searchResults) <= MaxListed /\ handleSearchGame
    \/ \E keywords \in KeywordLists : KeywordsDone(keywords)
    \/ KeywordsFail
    \/ \E n \in 1..MaxRequests :
          \/ \E results \in ProviderResponses : ProviderResolve(n, results)
          \/ RequestReject(n)
    \/ SearchDone
    \/ SearchAgain

SpecSources == InitSources /\ [][NextSources]_vars

\* SpecOrder: the search of the single import with the order in which its
\* requests settle on record
InitOrder == Loaded(<<StoredInstance(1)>>)

NextOrder ==
    \/ \E tab \in {"home", "instances"} : SetActiveTab(tab)
    \/ OpenImportChoice
    \/ CloseImportDialog
    \/ ChooseSearchImport
    \/ \E path \in ExecPaths : PickSearchExec(path)
    \/ SearchBack
    \/ Len(searchResults) <= MaxListed /\ handleSearchGame
    \/ \E keywords \in KeywordLists : KeywordsDone(keywords)
    \/ KeywordsFail
    \/ \E n \in 1..MaxRequests :
          \/ \E results \in UNION {Responses(Providers[j]) : j \in 1..Len(Providers)} :
                RankedResolve(n, results)
          \/ RankedReject(n)
    \/ SearchDone
    \/ SearchAgain

SpecOrder == InitOrder /\ [][NextOrder]_vars

\* SpecModal: the search modal of Layout, opened, searched and closed while
\* the user moves between the tabs.
InitModal == Loaded(<<StoredInstance(1)>>)

NextModal ==
    \/ \E tab \in {"home", "instances"} : SetActiveTab(tab)
    \/ OpenSearch
    \/ CloseSearch
    \/ \E q \in ModalQueries : SetSearchQuery(q)
    \/ \E source \in ModalSources, byButton \in BOOLEAN :
          /\ searchModal.started < MaxModalSearches
          /\ handleSearch(source, byButton)
    \/ \E k \in 1..Len(searchModal.calls) :
          \E data \in SearchGameData(searchModal.calls[k].keyword, searchModal.calls[k].source) :
              SearchGameResolve(k, data)
    \/ \E k \in 1..Len(searchModal.calls) : SearchGameReject(k)

SpecModal == InitModal /\ [][NextModal]_vars

\* SpecFeed: the discovery feed, its tab entered and left while pages are
\* fetched.
InitFeed == Loaded(<<StoredInstance(1)>>)

NextFeed ==
    \/ \E tab \in {"home", "discovery"} :
          /\ Len(discovery.calls) <= MaxStaleFetches
          /\ SetActiveTab(tab)
    \/ discovery.pageRef < MaxFeedPage /\ ObserverIntersects
    \/ RetryFetch
    \/ \E k \in 1..Len(discovery.calls) :
          \E resp \in FeedResponses(discovery.calls[k].page) : FetchNewsResolve(k, resp)
    \/ \E k \in 1..Len(discovery.calls) : FetchNewsReject(k)

SpecFeed == InitFeed /\ [][NextFeed]_vars

\* SpecIds: the handlers that put instances in the catalogue or write them
\* back, after the load: manual import, edit, launch, the listener and the
\* batch import of one directory, over a backend that answers a save before the
\* next one is issued and fails none.
InitIds == Loaded(<<StoredInstance(1)>>)

NextIds ==
    \/ \E tab \in {"home", "instances"} : SetActiveTab(tab)
    \/ OpenImportChoice
    \/ \E id \in IdSet : ChooseManualImport(id)
    \/ \E i \in IdSet : OpenEdit(i)
    \/ \E v \in Names : SetField("name", v)
    \/ \E v \in ExecPaths : SetField("executablePath", v)
    \/ Back
    \/ SaveSlot /\ handleSave
    \/ \E k \in 1..MaxSaves : SaveDone(k)
    \/ \E id \in IdSet, d \in SpecDurations, t \in Times :
          SaveSlot /\ PlayBound(id, d, MaxPlay) /\ GameFinished(id, d, t)
    \/ \E i \in IdSet : Len(launches) < MaxLaunches /\ ClickLaunch(i)
    \/ \E k \in 1..MaxLaunches, t \in Times : SaveSlot /\ LaunchSuccess(k, t)
    \/ \E k \in 1..MaxLaunches : LaunchFail(k)
    \/ scans < MaxScans /\ Len(instances) <= MaxBatchCatalogue /\ handleBatchImportClick
    \/ FreshIds(1) /\ ScanDone(<<ScannedDir("d1")>>)
    \/ SaveSlot /\ FreshIds(Len(ToImport(batchItems))) /\ handleConfirmBatchImport

SpecIds == InitIds /\ [][NextIds]_vars

\* the seconds today's entry of the instance the event names would have are
\* within the bound
HistoryBound(instance_id, duration_sec, t, bound) ==
    \A i \in 1..Len(instances) :
        instances[i].id = instance_id =>
            LET currentHistory == IF Has(instances[i], "playHistory")
                                  THEN instances[i].playHistory ELSE EmptyObj
                today == NumOr(currentHistory, TodayKey(t), 0) + duration_sec
            IN  today <= bound /\ -today <= bound

\* SpecSigned: the listener alone, with events whose duration_sec is any
\* number, negative ones included
InitSigned == \E cat \in EventCatalogues : Loaded(cat)

NextSigned ==
    \/ \E k \in 1..MaxSaves : SaveDone(k)
    \/ \E id \in IdSet, d \in SignedDurations, t \in EventTimes :
          /\ SaveSlot
          /\ PlayBound(id, d, MaxSignedPlay)
          /\ HistoryBound(id, d, t, MaxSignedPlay)
          /\ GameFinished(id, d, t)

SpecSigned == InitSigned /\ [][NextSigned]_vars

\* --------------------------------------------------------------- properties
\* C1: an edit-save of an instance the catalogue holds loses no play session:
\* the saved entry carries the name typed in the form and the totalPlayTime and
\* playHistory the catalogue held for the instance when the save was clicked.
C1_EditSaveKeepsPlaySessions ==
    [][(handleSave /\ toast'.message = "saved"
            /\ selectedId # Null /\ selectedId \in Ids(instances))
        => LET old == Find(instances, selectedId)
               new == Find(instances', selectedId)
               PlayKeys(x) == (DOMAIN x) \cap {"totalPlayTime", "playHistory"}
           IN  /\ new.name = formData.name
               /\ PlayKeys(new) = PlayKeys(old)
               /\ \A f \in PlayKeys(old) : new[f] = old[f]]_vars

\* the edit form is open on an instance, with a new name typed, and the
\* listener has since recorded a play session the form does not hold
C1_FormOpenedBeforeEvent ==
    /\ selectedId # Null
    /\ selectedId \in Ids(instances)
    /\ Has(formData, "name") /\ formData.name \in Names
    /\ LET cur == Find(instances, selectedId)
       IN  /\ cur.name # formData.name
           /\ Has(cur, "totalPlayTime")
           /\ ~Has(formData, "totalPlayTime")

\* C2: the listener updates the catalogue as it is when the event is
\* delivered: after the event the catalogue has the same entries in the same
\* places, each with every field other than totalPlayTime and playHistory as
\* it was just before.
C2_ListenerUpdatesLatest ==
    [][(Len(saves') = Len(saves) + 1 /\ saves'[Len(saves')].src = "listener")
        => /\ Len(instances') = Len(instances)
           /\ \A i \in 1..Len(instances) :
                LET Rest(x) == [f \in (DOMAIN x) \ {"totalPlayTime", "playHistory"} |-> x[f]]
                IN  Rest(instances'[i]) = Rest(instances[i])]_vars

\* an event has just been recorded on a catalogue that an import, a rename and
\* a launch had changed since the listener was registered
C2_EventAfterChanges ==
    /\ \E k \in 1..Len(saves) : saves[k].src = "listener" /\ saves[k].matched
    /\ Len(instances) = MaxIds
    /\ \E i \in 1..Len(instances) : Has(instances[i], "lastPlayed")
    /\ \E i \in 1..Len(instances) :
          instances[i].name \in Names /\ Has(instances[i], "totalPlayTime")

\* C3: when launch_game resolves for instance X, the catalogue becomes the
\* catalogue of that moment with X's lastPlayed set to the time read: the same
\* ids, every other instance as it was, and every other field of X as it was.
C3_LaunchWritesBackOnLatest ==
    [][\A k \in 1..Len(launches), t \in Times :
          LaunchSuccess(k, t) =>
             LET x == launches[k].instance.id
             IN  /\ Len(instances') = Len(instances)
                 /\ Ids(instances') = Ids(instances)
                 /\ \A i \in 1..Len(instances) :
                       Find(instances', instances[i].id) =
                           IF instances[i].id = x
                           THEN Assign(instances[i], "lastPlayed", t)
                           ELSE instances[i]]_vars

\* a launch is in flight for an instance the catalogue holds, and the
\* catalogue is no longer the one handleLaunch closed over
C3_CatalogueChangedDuringLaunch ==
    \E k \in 1..Len(launches) :
        /\ launches[k].instances # instances
        /\ launches[k].instance.id \in Ids(instances)

\* C4: the catalogue in memory is always ordered by lastPlayed, latest first,
\* an absent lastPlayed counting as 0, and by id, greatest first, among the
\* entries of equal lastPlayed.
C4_CatalogueSorted ==
    \A i, j \in 1..Len(instances) :
        i < j =>
            LET LastPlayed(x) == IF Has(x, "lastPlayed") THEN x.lastPlayed ELSE 0
            IN  \/ LastPlayed(instances[i]) > LastPlayed(instances[j])
                \/ /\ LastPlayed(instances[i]) = LastPlayed(instances[j])
                   /\ instances[i].id >= instances[j].id

\* a launched instance stands before one never launched, and an event has
\* been recorded
C4_PlayedBeforeUnplayed ==
    /\ Len(instances) = MaxIds
    /\ Has(instances[1], "lastPlayed")
    /\ ~Has(instances[Len(instances)], "lastPlayed")
    /\ \E i \in 1..Len(instances) : Has(instances[i], "totalPlayTime")

C6_DeleteIsTerminal == \A id \in deletedIds : id \notin Ids(instances)

\* an instance has been deleted while a launch of it was in flight
C6_DeletedDuringLaunch ==
    \E k \in 1..Len(launches) : launches[k].instance.id \in deletedIds

\* C7: whenever no save is outstanding, the file holds the catalogue in memory.
C7_PersistedIsFinal == saves = <<>> => persisted = JSONStringify(instances)

\* two saves with different payloads are outstanding
C7_TwoSavesOutstanding ==
    Len(saves) = MaxPersistSaves /\ saves[1].data # saves[Len(saves)].data

\* C8: when launch_game rejects, the catalogue in memory, the file and the
\* saves outstanding are what they were, and an error toast is shown.
C8_LaunchFailureChangesNothing ==
    [][(\E k \in 1..Len(launches) : LaunchFail(k))
        => /\ instances' = instances
           /\ persisted' = persisted
           /\ saves' = saves
           /\ toast'.type = "error"]_vars

\* a launch has failed on a catalogue that holds instances
C8_LaunchFailed ==
    /\ toast = Toast("launch failed", "error")
    /\ launches = <<>>
    /\ Len(instances) > 0

\* C9: an event for an instance of the catalogue adds its seconds to that
\* instance's totalPlayTime and to the entry of playHistory for the day, an
\* absent value counting as 0, and changes nothing else: the other days, the
\* other fields, the other instances and the order stay.
C9_EventAddsDuration ==
    [][\A id \in IdSet, d \in Durations, t \in EventTimes :
          (GameFinished(id, d, t) /\ id \in Ids(instances)) =>
             /\ Len(instances') = Len(instances)
             /\ \A i \in 1..Len(instances) :
                   LET old == instances[i]
                       new == instances'[i]
                       today == TodayKey(t)
                       oldHistory == IF Has(old, "playHistory") THEN old.playHistory
                                     ELSE EmptyObj
                       oldTotal == IF Has(old, "totalPlayTime") THEN old.totalPlayTime
                                   ELSE 0
                       oldToday == IF Has(oldHistory, today) THEN oldHistory[today] ELSE 0
                   IN  IF old.id # id THEN new = old
                       ELSE /\ DOMAIN new = (DOMAIN old) \cup {"totalPlayTime", "playHistory"}
                            /\ \A f \in (DOMAIN old) \ {"totalPlayTime", "playHistory"} :
                                  new[f] = old[f]
                            /\ new.totalPlayTime = oldTotal + d
                            /\ DOMAIN new.playHistory = (DOMAIN oldHistory) \cup {today}
                            /\ new.playHistory[today] = oldToday + d
                            /\ \A day \in (DOMAIN oldHistory) \ {today} :
                                  new.playHistory[day] = oldHistory[day]]_vars

\* an event has added a second to a day an instance had played on, next to
\* an earlier day of its playHistory
C9_SameDayEventRecorded ==
    /\ \E k \in 1..Len(saves) : saves[k].src = "listener" /\ saves[k].matched
    /\ \E i \in 1..Len(instances) :
          /\ Has(instances[i], "playHistory")
          /\ {Days[1], Days[2]} \subseteq DOMAIN instances[i].playHistory
          /\ instances[i].playHistory[Days[1]] = 1
          /\ instances[i].playHistory[Days[2]] = 2
          /\ instances[i].totalPlayTime = 3

\* C10: an event that names no instance of the catalogue changes neither the
\* catalogue in memory nor the toast shown, and the save it may issue leaves
\* the file as it is.
C10_UnknownEventIsNoOp ==
    [][/\ (/\ Len(saves') = Len(saves) + 1
           /\ saves'[Len(saves')].src = "listener"
           /\ ~saves'[Len(saves')].matched)
          => (instances' = instances /\ toast' = toast)
       /\ \A k \in 1..Len(saves) :
             (SaveDone(k) /\ saves[k].src = "listener" /\ ~saves[k].matched)
                => persisted' = persisted]_vars

\* the save an event for an unknown id issued is outstanding, and its payload
\* is not what the file holds
C10_UnknownEventSaveOutstanding ==
    \E k \in 1..Len(saves) :
        saves[k].src = "listener" /\ ~saves[k].matched /\ saves[k].data # persisted

\* C11: an event of duration 0 leaves the totalPlayTime and the playHistory of
\* the instance it names as they were: the fields that were absent stay absent,
\* and playHistory gets no key for today.
C11_ZeroDurationChangesNothing ==
    [][\A id \in IdSet, t \in EventTimes :
          GameFinished(id, 0, t)
              => \A i \in 1..Len(instances) :
                    instances[i].id = id
                        => LET PlayFields(x) ==
                                   [f \in (DOMAIN x) \cap {"totalPlayTime", "playHistory"}
                                       |-> x[f]]
                           IN  PlayFields(instances'[i]) = PlayFields(instances[i])]_vars

\* an instance has a day of playHistory on which nothing was played
C11_EmptyDayRecorded ==
    \E i \in 1..Len(instances) :
        /\ Has(instances[i], "playHistory")
        /\ \E d \in DOMAIN instances[i].playHistory : instances[i].playHistory[d] = 0

\* C12: what a replace hands to the save is the sorted list it put in memory,
\* and sorting it again when it is loaded returns it as it is; a load that
\* returns what the catalogue in memory was saved as leaves in memory the list
\* that was saved. A key whose value is undefined is not written to the file.
C12_RoundTrip ==
    [][/\ (/\ Len(saves') = Len(saves) + 1
           /\ saves'[Len(saves')].src = "replace")
          => LET loaded == sortInstances(JSONParse(saves'[Len(saves')].data))
             IN  /\ loaded = JSONParse(saves'[Len(saves')].data)
                 /\ loaded = [i \in 1..Len(instances') |-> StripUndefined(instances'[i])]
       /\ \A k \in 1..MaxLoads :
             (LoadDone(k) /\ loads[k].data = JSONStringify(instances))
                => instances' = [i \in 1..Len(instances) |-> StripUndefined(instances[i])]]_vars

\* a refresh has read back the two instances a replace saved
C12_SavedListReadBack ==
    \E k \in 1..Len(loads) :
        /\ loads[k].read
        /\ loads[k].isManual
        /\ loads[k].data = JSONStringify(instances)
        /\ Len(instances) = 2

\* C13: a save request that fails leaves the catalogue in memory as it is: the
\* list a replace put there is not rolled back to what the file holds; the file,
\* the page and the requests in flight are as they were.
C13_SaveFailureKeepsMemory ==
    [][\A k \in 1..MaxSaves :
          SaveFail(k)
              => /\ instances' = instances
                 /\ persisted' = persisted
                 /\ UNCHANGED <<loads, launches, activeTab, page>>]_vars

\* the save of the replace that imported a second instance has failed and the
\* listener has run since: memory holds two instances, the file one, and the
\* only request in flight is the save of the listener
C13_ImportKeptAfterFailedSave ==
    /\ loads = <<>>
    /\ Len(instances) = 2
    /\ Len(JSONParse(persisted)) = 1
    /\ Len(saves) = 1
    /\ saves[1].src = "listener"

\* C14: a load that fails leaves the empty catalogue in memory.
C14_LoadFailureEmptiesCatalogue ==
    [][\A k \in 1..MaxLoads : LoadFail(k) => instances' = INITIAL_INSTANCES]_vars

\* a refresh has failed on a catalogue that holds instances
C14_RefreshFailedOnCatalogue ==
    /\ toast = Toast("load failed", "error")
    /\ loads = <<>>
    /\ instances # INITIAL_INSTANCES
    /\ saves = <<>>
    /\ JSONStringify(instances) = persisted

\* C15: a commit with k selected items issues one save, of the catalogue it
\* puts in memory; that catalogue holds every instance of the prior catalogue
\* as it was and k instances more, with ids that are new. A commit with no
\* item selected issues no save and leaves the catalogue as it is.
C15_CommitAppendsSelected ==
    [][(FreshIds(Len(ToImport(batchItems))) /\ handleConfirmBatchImport)
          => LET k == Cardinality({i \in 1..Len(batchItems) : batchItems[i].selected})
             IN  IF k = 0
                 THEN instances' = instances /\ saves' = saves
                 ELSE /\ Len(saves') = Len(saves) + 1
                      /\ saves'[Len(saves')].src = "replace"
                      /\ JSONParse(saves'[Len(saves')].data)
                            = [i \in 1..Len(instances') |-> StripUndefined(instances'[i])]
                      /\ Len(instances') = Len(instances) + k
                      /\ \A i \in 1..Len(instances) :
                            \E j \in 1..Len(instances') : instances'[j] = instances[i]
                      /\ Cardinality(Ids(instances') \ usedIds) = k]_vars

\* of the two items of a scan one was selected at commit: the catalogue holds
\* the stored instance and the instance of the second directory
C15_OneOfTwoCommitted ==
    /\ Len(instances) = 2
    /\ \E i \in 1..2 : instances[i].name = "d2"
    /\ \E i \in 1..2 : instances[i] = StoredInstance(1)
    /\ Len(saves) = 1
    /\ ~isBatchModalOpen

\* C16: every change of the status of a BatchItem is one of pending to
\* matching, matching to matched, matching to unmatched, matched to matching,
\* unmatched to matching.
C16_StatusChangesAllowed ==
    [][\A i \in 1..Len(batchItems), j \in 1..Len(batchItems') :
          (batchItems[i].id = batchItems'[j].id
              /\ batchItems[i].status # batchItems'[j].status)
             => <<batchItems[i].status, batchItems'[j].status>>
                   \in {<<"pending", "matching">>, <<"matching", "matched">>,
                        <<"matching", "unmatched">>, <<"matched", "matching">>,
                        <<"unmatched", "matching">>}]_vars

\* a second run is under way: an earlier run has matched the second item, and
\* this one has put the first item to matching
C16_SecondRunUnderWay ==
    /\ Len(batchItems) = 2
    /\ batchItems[1].status = "matching"
    /\ batchItems[2].status = "matched"
    /\ matchQueue = <<batchItems[1].id>>
    /\ isBatchMatching

\* C17: the turn of a matching run for an item the dialog holds leaves the
\* item unmatched with no searchResults when no keyword was extracted, the
\* extraction failed or the search returned nothing, and matched with the list
\* returned as searchResults and its first element as matchedResult otherwise.
C17_OutcomeFollowsResults ==
    [][\A outcome \in MatchOutcomes :
          MatchSettled(outcome)
              => \A i \in 1..Len(batchItems) :
                    batchItems[i].id = Head(matchQueue)
                        => IF outcome.keywords = "some" /\ outcome.results # <<>>
                           THEN /\ batchItems'[i].status = "matched"
                                /\ batchItems'[i].searchResults = outcome.results
                                /\ batchItems'[i].matchedResult = Head(outcome.results)
                           ELSE /\ batchItems'[i].status = "unmatched"
                                /\ batchItems'[i].searchResults = <<>>
                                /\ batchItems'[i].matchedResult = batchItems[i].matchedResult]_vars

\* a run has ended with one item matched to the first of the results found
\* and the other unmatched
C17_MatchedAndUnmatched ==
    /\ Len(batchItems) = 2
    /\ ~isBatchMatching
    /\ matchQueue = <<>>
    /\ batchItems[1].status = "unmatched"
    /\ batchItems[1].searchResults = <<>>
    /\ batchItems[2].status = "matched"
    /\ batchItems[2].matchedResult = SearchResult(1)
    /\ Len(batchItems[2].searchResults) = 2

\* C18: a step that moves an item into or out of matching moves an item that
\* is selected, and a commit builds no instance for an item that is not.
C18_SelectionGatesMatching ==
    [][/\ \A i \in 1..Len(batchItems), j \in 1..Len(batchItems') :
             (/\ batchItems[i].id = batchItems'[j].id
              /\ batchItems[i].status # batchItems'[j].status
              /\ "matching" \in {batchItems[i].status, batchItems'[j].status})
                => batchItems[i].selected
       /\ (FreshIds(Len(ToImport(batchItems))) /\ handleConfirmBatchImport)
             => Len(instances') - Len(instances)
                   = Cardinality({i \in 1..Len(batchItems) : batchItems[i].selected})]_vars

\* the row checkbox of an item was cleared while the run had it in matching
C18_UnselectedWhileMatching ==
    \E i \in 1..Len(batchItems) :
        /\ batchItems[i].status = "matching"
        /\ ~batchItems[i].selected
        /\ isBatchMatching
        /\ Len(matchQueue) > 0
        /\ Head(matchQueue) = batchItems[i].id
        /\ isBatchModalOpen

\* C19: a turn of a matching run leaves the catalogue, the file and the saves
\* as they are, also after the dialog was closed, and changes no item of a batch
\* a later scan opens: every id the run has left to settle is the id of no item
\* of the dialog, or of an item this run put to matching.
C19_StaleMatchingHarmless ==
    [][/\ \A outcome \in MatchOutcomes :
             MatchSettled(outcome)
                => /\ UNCHANGED <<instances, persisted, saves>>
                   /\ \A i \in 1..Len(batchItems) :
                         batchItems[i].id # Head(matchQueue)
                            => batchItems'[i] = batchItems[i]
       /\ \A n \in 1..Len(matchQueue') :
             \A i \in 1..Len(batchItems') :
                 batchItems'[i].id = matchQueue'[n] => batchItems'[i].status = "matching"]_vars

\* a batch was opened while the run of the batch closed before it was still
\* in flight
C19_RunOutlivesItsBatch ==
    /\ isBatchModalOpen
    /\ matchQueue # <<>>
    /\ \A n \in 1..Len(matchQueue) : matchQueue[n] \notin Ids(batchItems)
    /\ \A i \in 1..Len(batchItems) : batchItems[i].status = "pending"

\* C20: the instance a commit builds for a selected item has the name typed
\* for the item when one was typed, the empty name included, else the title of
\* the matched result when there is one, else the directory name; the cover
\* typed when one was typed, else the cover of the matched result; the
\* executable and the bottle chosen for the item.
C20_CommittedInstanceFields ==
    [][(FreshIds(Len(ToImport(batchItems))) /\ handleConfirmBatchImport)
          => LET toImport == ToImport(batchItems)
                 ids == NewInstanceIds(usedIds, Len(toImport))
             IN  \A n \in 1..Len(toImport) :
                    LET item == toImport[n]
                        built == Find(instances', ids[n])
                    IN  /\ built.name =
                              IF Has(item.manualInfo, "name") THEN item.manualInfo.name
                              ELSE IF item.matchedResult # EmptyObj
                                   THEN item.matchedResult.title
                                   ELSE item.dirName
                        /\ built.backgroundImage =
                              IF Has(item.manualInfo, "backgroundImage")
                              THEN item.manualInfo.backgroundImage
                              ELSE IF item.matchedResult # EmptyObj
                                   THEN item.matchedResult.cover
                                   ELSE Undefined
                        /\ built.executablePath = item.selectedExec
                        /\ built.bottleName = item.bottleName]_vars

\* an item of the dialog has a matched result and a name that was typed and
\* then cleared
C20_NameClearedOnMatchedItem ==
    /\ BatchDialog
    /\ ~isBatchMatching
    /\ \E i \in 1..Len(batchItems) :
          /\ batchItems[i].selected
          /\ batchItems[i].status = "matched"
          /\ Has(batchItems[i].manualInfo, "name")
          /\ batchItems[i].manualInfo.name = ""

\* C21: a commit with no item selected changes neither the catalogue, the
\* file, the saves in flight nor the items of the dialog; the dialog stays
\* open and an error toast is shown.
C21_EmptyCommitRejected ==
    [][(/\ \A i \in 1..Len(batchItems) : ~batchItems[i].selected
        /\ handleConfirmBatchImport)
          => /\ UNCHANGED <<instances, persisted, saves, batchItems, usedIds>>
             /\ isBatchModalOpen'
             /\ toast'.type = "error"]_vars

\* the import button was clicked with the items of the dialog all unselected
C21_EmptyCommitRefused ==
    /\ isBatchModalOpen
    /\ toast = Toast("select a game", "error")
    /\ Len(batchItems) = 2
    /\ \A i \in 1..Len(batchItems) : ~batchItems[i].selected
    /\ instances = <<StoredInstance(1)>>
    /\ saves = <<>>

\* C22: the results the search lists never hold two entries with the same
\* title and the same source.
C22_NoDuplicateResults ==
    \A i, j \in 1..Len(searchResults) :
        (i # j) => ~(/\ searchResults[i].title = searchResults[j].title
                     /\ searchResults[i].source = searchResults[j].source)

\* a search has listed the title both keywords found at touchgal once, in
\* front of a title the second keyword found in front of it
C22_DuplicatesMerged ==
    /\ importState = "search_results"
    /\ Len(searchResults) >= 2
    /\ searchResults[1] = ProviderResult("t1", "touchgal", 2)
    /\ searchResults[2] = ProviderResult("t2", "touchgal", 1)

\* C23: when the requests of a search have settled, some of them rejected,
\* the search ends without an error and lists a result for each title and
\* source a request that resolved has returned, and no other.
C23_RejectedRequestIsEmpty ==
    [][SearchDone
          => LET Pairs(list) == {<<list[i].title, list[i].source>> : i \in 1..Len(list)}
                 resolved == {n \in 1..Len(search.requests) :
                                 search.requests[n].state = "resolved"}
             IN  /\ Pairs(searchResults')
                       = UNION {Pairs(search.requests[n].results) : n \in resolved}
                 /\ \A i \in 1..Len(searchResults') :
                       \E n \in resolved :
                          \E k \in 1..Len(search.requests[n].results) :
                             search.requests[n].results[k] = searchResults'[i]
                 /\ importState' = "search_results"
                 /\ ~isSearching'
                 /\ toast' = toast]_vars

\* the requests of a search have settled: the first was rejected, others
\* resolved with results
C23_OneRequestRejected ==
    /\ AllSettled
    /\ Len(search.requests) = 4
    /\ search.requests[1].state = "rejected"
    /\ search.requests[1].results = <<>>
    /\ search.requests[2].state = "resolved"
    /\ Len(search.requests[2].results) = 2
    /\ search.requests[3].state = "rejected"
    /\ search.requests[4].state = "resolved"

\* C30: the list a search ends with holds one entry for each title and source
\* of the results merged in the order of the requests; the entries stand in the
\* order in which their title and source first occur in the merged list, and
\* each is the last result of the merged list with that title and source.
C30_FirstPlaceLastValue ==
    [][SearchDone
          => LET merged == AllResults(search.requests)
                 Same(a, b) == a.title = b.title /\ a.source = b.source
                 First(x) == CHOOSE i \in 1..Len(merged) :
                                 /\ Same(merged[i], x)
                                 /\ \A j \in 1..(i - 1) : ~Same(merged[j], x)
                 Last(x) == CHOOSE i \in 1..Len(merged) :
                                /\ Same(merged[i], x)
                                /\ \A j \in (i + 1)..Len(merged) : ~Same(merged[j], x)
             IN  /\ \A i \in 1..Len(merged) :
                       \E k \in 1..Len(searchResults') : Same(searchResults'[k], merged[i])
                 /\ \A k \in 1..Len(searchResults') :
                       /\ \E i \in 1..Len(merged) : Same(merged[i], searchResults'[k])
                       /\ searchResults'[k] = merged[Last(searchResults'[k])]
                 /\ \A k, l \in 1..Len(searchResults') :
                       (k < l) => First(searchResults'[k]) < First(searchResults'[l])]_vars

\* a search has listed four results: for each source the title both keywords
\* found comes first, with the cover the second keyword found
C30_LaterValueInFirstPlace ==
    /\ importState = "search_results"
    /\ searchResults = <<ProviderResult("t1", "touchgal", 2), ProviderResult("t1", "kungal", 2),
                         ProviderResult("t2", "touchgal", 1), ProviderResult("t2", "kungal", 1)>>

\* C24: the end of an attempt of a matching run that extracted no keyword can
\* be told from the end of an attempt whose search ran and found nothing: no
\* step is both.
C24_NoKeywordsToldApart ==
    [][~(/\ MatchSettled([keywords |-> "none", results |-> <<>>])
         /\ MatchSettled([keywords |-> "some", results |-> <<>>]))]_vars

\* a run has ended and left an item unmatched with no results
C24_UnmatchedWithoutResults ==
    /\ isBatchModalOpen
    /\ ~isBatchMatching
    /\ matchQueue = <<>>
    /\ \E i \in 1..Len(batchItems) :
          /\ batchItems[i].status = "unmatched"
          /\ batchItems[i].searchResults = <<>>
          /\ batchItems[i].matchedResult = EmptyObj

\* C25: no two instances of the catalogue have the same id, and the handlers
\* that write the catalogue keep the ids it holds: a save of the form adds the
\* id of the form when the catalogue does not hold it and no other, the
\* listener leaves every id in its place, a launch writes back the ids of the
\* list it read, a batch commit keeps every id and adds ids never used.
C25_IdsUniqueAndKept ==
    [][/\ \A i, j \in 1..Len(instances') : (i # j) => instances'[i].id # instances'[j].id
       /\ (Len(saves') = Len(saves) + 1)
             => LET save == saves'[Len(saves')]
                IN  CASE save.src = "listener" ->
                            /\ Len(instances') = Len(instances)
                            /\ \A i \in 1..Len(instances) : instances'[i].id = instances[i].id
                      [] save.src = "replace" /\ Len(launches') < Len(launches) ->
                            \E k \in 1..Len(launches) :
                                /\ launches' = RemoveAt(launches, k)
                                /\ Ids(instances') = Ids(launches[k].instances)
                      [] save.src = "replace" /\ isBatchModalOpen /\ ~isBatchModalOpen' ->
                            /\ Ids(instances) \subseteq Ids(instances')
                            /\ (Ids(instances') \ Ids(instances)) \cap usedIds = {}
                      [] OTHER ->
                            /\ IsEditing
                            /\ Ids(instances') = Ids(instances) \cup {formData.id}]_vars

\* the catalogue holds the stored instance, launched and played, an instance
\* of the manual import and an instance of the batch import
C25_ThreeWaysIntoCatalogue ==
    /\ Len(instances) = 3
    /\ \E i \in 1..3 : /\ instances[i].id = 1
                       /\ Has(instances[i], "lastPlayed")
                       /\ Has(instances[i], "totalPlayTime")
    /\ \E i \in 1..3 : instances[i].name = "b"
    /\ \E i \in 1..3 : instances[i].name = "d1"

\* C26: the totalPlayTime of every instance and every value of its
\* playHistory is at least 0.
C26_PlayTimeNonNegative ==
    \A i \in 1..Len(instances) :
        /\ Has(instances[i], "totalPlayTime") => instances[i].totalPlayTime >= 0
        /\ Has(instances[i], "playHistory")
              => \A d \in DOMAIN instances[i].playHistory : instances[i].playHistory[d] >= 0

\* an instance has a day on record with seconds played and a later day with
\* as many seconds taken off again
C26_SecondsTakenOff ==
    \E i \in 1..Len(instances) :
        /\ Has(instances[i], "playHistory")
        /\ Has(instances[i], "totalPlayTime")
        /\ instances[i].totalPlayTime = 0
        /\ \E d \in DOMAIN instances[i].playHistory : instances[i].playHistory[d] = 1
        /\ \E d \in DOMAIN instances[i].playHistory : instances[i].playHistory[d] = -1

\* C27: in every state where the import button of the batch dialog answers,
\* the dialog showing and no matching run under way, no item of the dialog has
\* the status matching.
C27_NoCommitWhileMatching ==
    (BatchDialog /\ ~isBatchMatching)
        => \A i \in 1..Len(batchItems) : batchItems[i].status # "matching"

\* a run has matched the first item of the dialog and ended; the second item
\* was not selected and is pending; the import button answers
C27_CommitAfterRun ==
    /\ BatchTable
    /\ ~isBatchMatching
    /\ matchQueue = <<>>
    /\ Len(batchItems) = 2
    /\ batchItems[1].selected
    /\ batchItems[1].status = "matched"
    /\ ~batchItems[2].selected
    /\ batchItems[2].status = "pending"
    /\ SaveSlot
    /\ FreshIds(1)

\* C28: at any time at most one item has an attempt under way, its keyword
\* extraction or its search requests issued and not settled.
C28_OneAttemptAtATime == Outstanding <= 1

\* the run of a page that was left is at its first item while the run of the
\* page mounted after it is at the first item of a later scan
C28_TwoLoopsAtOnce ==
    /\ BatchDialog
    /\ isBatchMatching
    /\ Len(matchQueue) = 2
    /\ batchItems[1].status = "matching"
    /\ staleRuns = <<2>>

\* C29: when every call a matching run awaits returns or fails in the end, an
\* item of the dialog that is matching is later matched or unmatched, or an
\* item of the dialog no more, and a run under way is later over; and in every
\* state where isBatchMatching is false no item of the dialog is matching.
C29_RunEndsAndSettles ==
    /\ [](~isBatchMatching
            => \A i \in 1..Len(batchItems) : batchItems[i].status # "matching")
    /\ isBatchMatching ~> ~isBatchMatching
    /\ \A id \in BatchIdSet :
          (\E i \in 1..Len(batchItems) :
               batchItems[i].id = id /\ batchItems[i].status = "matching")
             ~> (\A i \in 1..Len(batchItems) :
                    batchItems[i].id = id => batchItems[i].status \in {"matched", "unmatched"})

\* a run of two items has ended: the first extracted no keyword and is
\* unmatched, the second is matched, and isBatchMatching is false
C29_BothSettled ==
    /\ isBatchModalOpen
    /\ ~isBatchMatching
    /\ matchQueue = <<>>
    /\ Len(batchItems) = 2
    /\ batchItems[1].status = "unmatched"
    /\ batchItems[2].status = "matched"
    /\ staleRuns = <<>>

\* C31: the results a search lists are the results its requests returned,
\* merged exactly when their titles are equal and their sources are equal:
\* every pair of a title and a source that was returned is listed, once.
C31_PairIsIdentity ==
    [][(AllSettled /\ search' = NoCall /\ importState' = "search_results")
          => LET all == AllResults(search.requests)
             IN  /\ \A n \in 1..Len(all) :
                       \E i \in 1..Len(searchResults') :
                           /\ searchResults'[i].title = all[n].title
                           /\ searchResults'[i].source = all[n].source
                 /\ \A i, j \in 1..Len(searchResults') :
                       (i # j) => \/ searchResults'[i].title # searchResults'[j].title
                                  \/ searchResults'[i].source # searchResults'[j].source]_vars

\* the requests of a search have settled: the first returned the title xkun
\* of the source gal, the second the title x of the source kungal
C31_TwoPairsOneKey ==
    /\ AllSettled
    /\ Len(search.requests) = 2
    /\ search.requests[1].results = <<ProviderResult("xkun", "gal", 1)>>
    /\ search.requests[2].results = <<ProviderResult("x", "kungal", 1)>>

\* C32: every instance of the catalogue has an executablePath that is not
\* empty.
C32_ExecutablePathNonEmpty ==
    \A i \in 1..Len(instances) : ~FalsyStr(instances[i], "executablePath")

\* a commit has built an instance for the item of a directory without
\* executables: the catalogue holds it, and its save is in flight
C32_InstanceWithoutPath ==
    /\ Len(instances) = 2
    /\ \E i \in 1..2 : instances[i].name = "d3" /\ instances[i].executablePath = Undefined
    /\ ~isBatchModalOpen
    /\ Len(saves) = 1

\* C33: after every step, an item of the dialog that is matched has
\* searchResults that are not empty and a matchedResult that is one of them,
\* and an item that is unmatched or pending has no searchResults and no
\* matchedResult; the choice of a result in the edit pane changes the
\* matchedResult of the item edited and nothing else of the items, and starts
\* no run, scan or save.
C33_ResultsFollowStatus ==
    [][/\ \A i \in 1..Len(batchItems') :
             LET item == batchItems'[i]
             IN  /\ item.status = "matched"
                    => /\ Len(item.searchResults) > 0
                       /\ \E n \in 1..Len(item.searchResults) :
                              item.matchedResult = item.searchResults[n]
                 /\ item.status \in {"unmatched", "pending"}
                    => /\ item.searchResults = <<>>
                       /\ item.matchedResult = EmptyObj
       /\ (BatchEditPane /\ editingBatchItemId' = Null /\ batchItems' # batchItems)
             => /\ Len(batchItems') = Len(batchItems)
                /\ \A i \in 1..Len(batchItems) :
                      /\ batchItems'[i] = [batchItems[i] EXCEPT
                                              !.matchedResult = batchItems'[i].matchedResult]
                      /\ batchItems'[i] # batchItems[i]
                            => batchItems[i].id = editingBatchItemId
                /\ UNCHANGED <<instances, persisted, saves, matchQueue, isBatchMatching,
                               scans, search, isBatchModalOpen>>]_vars

\* the second of the results found for an item was chosen in the edit pane
C33_SecondResultChosen ==
    /\ BatchTable
    /\ \E i \in 1..Len(batchItems) :
          /\ batchItems[i].status = "matched"
          /\ Len(batchItems[i].searchResults) = 2
          /\ batchItems[i].matchedResult = batchItems[i].searchResults[2]

\* C34: the turn of a matching run whose keyword extraction failed leaves the
\* item of the turn unmatched with no searchResults and every other item as it
\* was; the items the run has left stay in its list, in their order; and when
\* the list is empty the run is over and no item of the dialog is matching.
C34_ErrorSettlesOneItem ==
    [][MatchSettled([keywords |-> "rejected", results |-> <<>>])
          => /\ Len(batchItems') = Len(batchItems)
             /\ \A i \in 1..Len(batchItems) :
                   IF batchItems[i].id = Head(matchQueue)
                   THEN /\ batchItems'[i].status = "unmatched"
                        /\ batchItems'[i].searchResults = <<>>
                   ELSE batchItems'[i] = batchItems[i]
             /\ matchQueue' = Tail(matchQueue)
             /\ (matchQueue' # <<>>) => isBatchMatching'
             /\ (matchQueue' = <<>>)
                   => /\ ~isBatchMatching'
                      /\ \A i \in 1..Len(batchItems') :
                            batchItems'[i].status # "matching"]_vars

\* the first turn of a run of two items has ended and left its item
\* unmatched; the second item is matching and the run goes on
C34_RunGoesOn ==
    /\ BatchDialog
    /\ isBatchMatching
    /\ Len(batchItems) = 2
    /\ batchItems[1].status = "unmatched"
    /\ batchItems[2].status = "matching"
    /\ matchQueue = <<batchItems[2].id>>

\* C35: the list a search ends with is the list it would end with had its
\* requests settled in any other order with the same responses.
C35_OrderOfCompletionIgnored ==
    [][(AllSettled /\ search' = NoCall /\ importState' = "search_results")
          => \A p \in Permutations(1..Len(search.requests)) :
                searchResults'
                   = UniqueResults(AllResults(
                         [n \in 1..Len(search.requests) |->
                             [search.requests[n] EXCEPT !.rank = p[n]]]))]_vars

\* the four requests of a search have settled with results, the last of them
\* first and the first of them last
C35_LastRequestFirst ==
    /\ AllSettled
    /\ Len(search.requests) = 4
    /\ search.requests[4].rank = 1
    /\ search.requests[1].rank = 4
    /\ \A n \in 1..4 : Len(search.requests[n].results) = 2

\* C36: a refresh that resolves when no save is in flight and the file holds
\* the catalogue in memory, the changes made while the refresh was in flight
\* included, removes none of them: every instance the catalogue in memory
\* held is in it afterwards, as the file holds it.
C36_RefreshKeepsChange ==
    [][\A k \in 1..MaxLoads :
          (/\ LoadDone(k)
           /\ loads[k].isManual
           /\ saves = <<>>
           /\ JSONStringify(instances) = persisted)
             => \A i \in 1..Len(instances) :
                   \E j \in 1..Len(instances') :
                       StripUndefined(instances'[j]) = StripUndefined(instances[i])]_vars

\* a refresh has resolved with what the file held before the save of a play
\* session was written: the file holds the play time, the catalogue in memory
\* does not, and nothing is in flight
C36_PlayTimeRefreshedAway ==
    /\ loads = <<>>
    /\ saves = <<>>
    /\ toast = Toast("refreshed", "success")
    /\ Len(instances) = 1
    /\ ~Has(instances[1], "totalPlayTime")
    /\ Len(JSONParse(persisted)) = 1
    /\ Has(JSONParse(persisted)[1], "totalPlayTime")

\* C37: while the load the mount effect issues is in flight no save is in
\* flight, and the file holds what it held when the process started.
C37_NoSaveBeforeLoad ==
    (\E k \in 1..Len(loads) : ~loads[k].isManual)
        => /\ saves = <<>>
           /\ persisted \in {JSONStringify(cat) : cat \in InitialCatalogues}

\* the load the mount effect issued has read a file of one instance and has
\* not resolved; the save of a play session has since written the empty
\* catalogue over the file
C37_FileEmptiedBeforeLoad ==
    /\ Len(loads) = 1
    /\ ~loads[1].isManual
    /\ loads[1].read
    /\ Len(JSONParse(loads[1].data)) = 1
    /\ instances = <<>>
    /\ saves = <<>>
    /\ persisted = JSONStringify(<<>>)

\* C38: while the import dialog is closed, importState none, the only step
\* that changes importState is the user opening the dialog on its choice pane.
C38_ClosedStaysClosed ==
    [][importState = "none" => importState' \in {"none", "choice"}]_vars

\* the dialog was closed while a search was in flight, and the requests of the
\* search have since settled with results
C38_ClosedWhileSearching ==
    /\ OnPage
    /\ importState = "none"
    /\ isSearching
    /\ AllSettled
    /\ \E n \in 1..Len(search.requests) : Len(search.requests[n].results) > 0

\* C39: in the search modal, once no search is in flight the results on
\* display are those of the search that was started last, and while the modal
\* is closed the results are empty, also after a search that was in flight
\* when it closed has completed.
C39_LatestSearchShown ==
    /\ searchModal.calls = <<>> => searchModal.results = searchModal.due
    /\ ~searchModal.isOpen => searchModal.results = <<>>

\* two searches have been started in the modal, and the first of them is
\* still in flight after the second has been answered
C39_FirstSearchOutstanding ==
    /\ searchModal.isOpen
    /\ searchModal.latest = 2
    /\ searchModal.due # <<>>
    /\ \E k \in 1..Len(searchModal.calls) : searchModal.calls[k].n = 1

\* C40: in the discovery feed at most one fetch of articles is in flight at
\* any time, the list of articles never holds two entries with the same
\* topicId, and the current page number goes up only in the step in which a
\* fetch succeeds with a page that is not empty.
C40_OneFetchAtATime ==
    [][/\ Len(discovery.calls) <= 1
       /\ \A i, j \in 1..Len(discovery.articles) :
             discovery.articles[i] = discovery.articles[j] => i = j
       /\ discovery'.pageRef > discovery.pageRef
             => \E k \in 1..Len(discovery.calls) :
                   \E resp \in FeedResponses(discovery.calls[k].page) :
                       /\ resp.success
                       /\ resp.data # <<>>
                       /\ FetchNewsResolve(k, resp)]_vars

\* the discovery tab was left while a fetch was in flight and entered again:
\* the fetch of the page that is gone and the first fetch of the new page are
\* both in flight
C40_FetchOfPageLeftBehind ==
    /\ discovery.mounted
    /\ \E k \in 1..Len(discovery.calls) : ~discovery.calls[k].live
    /\ \E k \in 1..Len(discovery.calls) : discovery.calls[k].live

====
